---- MODULE Spec2Model ----
(***************************************************************************)
(* RenderSession of rdkcentral/texttrack: the packet dispatch, the ingress *)
(* queue and the render thread of one session.                             *)
(*                                                                         *)
(* Three threads touch a session: "api" (a registry call, serialized by    *)
(* the registry's sessions lock), "sock" (the socket source's thread, the  *)
(* PacketReceiver callbacks) and "render" (processLoop).  A critical       *)
(* section under mDataMutex is one step; a critical section under          *)
(* mDecoderMutex is one step, except decoder selection and reset-all,      *)
(* whose decoder calls are separate steps taken while the lock is held.    *)
(***************************************************************************)
EXTENDS Integers, Sequences, FiniteSets, TLC

VARIABLES
    mStarted,           \* RenderSession::mStarted
    mSocket,            \* RenderSession::mSocket: the socket source runs
    mQuitRenderThread,  \* RenderSession::mQuitRenderThread
    mDecoder,           \* RenderSession::mDecoder: a decoder object or NoDecoder
    newDecoder,         \* the object `new ctrl::X(...)` built before mDecoder.reset takes it
    mSessionType,       \* RenderSession::mSessionType
    mDataQueue,         \* RenderSession::mDataQueue
    mDecoderMutex,      \* owner of mDecoderMutex, or "none"
    pc,                 \* position of each thread
    cur,                \* the packet or buffer each thread is handling
    wake,               \* a notify_one reached the render thread blocked in a wait
    nDecoders,          \* decoder objects constructed so far
    nEnqueued,          \* buffers that entered mDataQueue so far
    mPreviewText,       \* RenderSession::mPreviewText
    mSessions,          \* TextTrackImplementation::mSessions: session id -> session
    mSessionNumber,     \* TextTrackImplementation::mSessionNumber
    ret,                \* the last registry call: its name, session id and Core::hresult
    bp,                 \* the sendData call being encoded: its arguments and the words of bp
    now,                \* std::chrono::steady_clock::now(), in ticks
    configStyle,        \* the stored ClosedCaptionsStyle (ReadClosedCaptionsStyle)
    reg,                \* owners of mSessionsMutex, mConfigMutex, mNotificationMutex; callers' positions
    mLastActiveTime     \* RenderSession::mLastActiveTime

\* The state of TextTrackImplementation and of its callers.
outerVars == <<mSessions, mSessionNumber, ret, bp, now, configStyle, reg>>

\* The state that only calls of the registry's thread write.
callerVars == <<mPreviewText, outerVars>>

vars == <<mStarted, mSocket, mQuitRenderThread, mDecoder, newDecoder, mSessionType,
          mDataQueue, mDecoderMutex, pc, cur, wake, nDecoders, nEnqueued, mLastActiveTime,
          callerVars>>

\* Bounds of the model.
MaxBuffers == 2
MaxDecoders == 2

Threads == {"api", "sock", "render"}

\* RenderSession::SessionType
SessionTypes == {"NONE", "CC", "TTX", "DVB", "WEBVTT", "TTML", "SCTE"}

\* protocol::Packet::Type values that doOnPacketReceived switches on.
SelectionTypes == {"SUBTITLE_SELECTION", "TELETEXT_SELECTION", "TTML_SELECTION", "WEBVTT_SELECTION"}
DataTypes == {"PES_DATA", "TTML_DATA", "WEBVTT_DATA", "CC_DATA"}
TransportTypes == {"PAUSE", "RESUME", "MUTE", "UNMUTE"}
TimestampTypes == {"TTML_TIMESTAMP", "WEBVTT_TIMESTAMP"}
ForwardedTypes == {"TTML_INFO"}
OtherTypes == {"TIMESTAMP", "INVALID"}

\* PacketSubtitleSelection::getSubtitlesType values; "UNKNOWN" is any other value.
SubtitleTypes == {"DVB", "SCTE", "CC", "TELETEXT", "UNKNOWN"}

\* What a decoder keeps of an addData call: the packet's type, seq and gen.
NoData == [type |-> "none", seq |-> 0, gen |-> -1]

\* A decoder object: its format, whether it is activated, and the calls it has
\* received: the last mute(), the last pause()/resume(), the last addData(), and
\* in cc the last of processSetCCAttributesPacket ("attrs") and setTextForPreview
\* ("preview"), in ts the type of the last packet given to processTimestamp.
NoDecoder == [id |-> 0, fmt |-> "NONE", activated |-> FALSE, mute |-> "none", pause |-> "none",
              data |-> NoData, cc |-> "none", ts |-> "none"]
NoPacket == [type |-> "INVALID", sub |-> "-", seq |-> 0, gen |-> -1, src |-> "none"]

\* A packet: src is the producing thread; seq is its number among the buffers that
\* entered mDataQueue (0 if it did not) and gen the number of decoders constructed
\* by then (-1 if it did not); sub is the subtitles type of a SUBTITLE_SELECTION
\* and, during the dispatch of a RESET_CHANNEL, the answer of wantsData.
Packet(type, sub, src) == [type |-> type, sub |-> sub, seq |-> 0, gen |-> -1, src |-> src]

\* No sendData call is being encoded: no word follows the header in bp.
NoBuildPacket == [type |-> "PES", offsetMs |-> 0, words |-> <<>>, built |-> FALSE]

\* The registry after its constructor: no session, no call made yet.
InitRegistry ==
    /\ mSessions = << >>
    /\ mSessionNumber = 0
    /\ ret = [op |-> "none", id |-> 0, code |-> "ERROR_NONE"]
    /\ configStyle = "g1"

\* The mutexes of TextTrackImplementation
RegistryLocks == {"mSessionsMutex", "mConfigMutex", "mNotificationMutex"}

\* The threads that call the registry: "api", whose calls of a session the model
\* follows step by step, and a second caller, "reg".
Callers == {"api", "reg"}

\* A caller that is in no call of the registry.
NoCall == [op |-> "none", i |-> 0]

\* The mutexes free and no call in progress.
NoLocks ==
    [owner |-> [l \in RegistryLocks |-> "none"], at |-> [c \in Callers |-> NoCall]]

\* The members the constructors leave for the registry's calls to set.
InitCaller ==
    /\ mPreviewText = ""
    /\ InitRegistry
    /\ reg = NoLocks
    /\ bp = NoBuildPacket
    /\ now = 0
    /\ mLastActiveTime = 0

Init ==
    /\ mStarted = FALSE
    /\ mSocket = FALSE
    /\ mQuitRenderThread = FALSE
    /\ mDecoder = NoDecoder
    /\ newDecoder = NoDecoder
    /\ mSessionType = "NONE"
    /\ mDataQueue = <<>>
    /\ mDecoderMutex = "none"
    /\ pc = [t \in Threads |-> IF t = "render" THEN "off" ELSE "idle"]
    /\ cur = [t \in Threads |-> NoPacket]
    /\ wake = FALSE
    /\ nDecoders = 0
    /\ nEnqueued = 0
    /\ InitCaller

(***************************************************************************)
(* Helpers of the dispatch                                                 *)
(***************************************************************************)

\* A touchTime() that leaves the last-activity time as it is.
TouchTime_Kept == mLastActiveTime

\* touchTime(): the value std::chrono::steady_clock::now() gives mLastActiveTime
TouchTime == now

\* isRenderingActive(): mDecoder.get() != nullptr
isRenderingActive == mDecoder # NoDecoder

\* isDataQueued(): !mDataQueue.empty()
isDataQueued == mDataQueue # <<>>

\* A processDecoderSelection that leaves out the deactivate() of the old decoder.
Deactivate_Skipped(d) == d

\* mDecoder->deactivate()
Deactivate(d) == IF d = NoDecoder THEN d ELSE [d EXCEPT !.activated = FALSE]

\* The session type the switch of processDecoderSelection sets for a selection
\* packet; "NONE" stands for its two default branches (no decoder, tag untouched).
SelectedFormat(p) ==
    CASE p.type = "SUBTITLE_SELECTION" /\ p.sub = "DVB" -> "DVB"
      [] p.type = "SUBTITLE_SELECTION" /\ p.sub = "SCTE" -> "SCTE"
      [] p.type = "SUBTITLE_SELECTION" /\ p.sub = "CC" -> "CC"
      [] p.type = "SUBTITLE_SELECTION" /\ p.sub = "TELETEXT" -> "TTX"
      [] p.type = "TELETEXT_SELECTION" -> "TTX"
      [] p.type = "TTML_SELECTION" -> "TTML"
      [] p.type = "WEBVTT_SELECTION" -> "WEBVTT"
      [] OTHER -> "NONE"

\* A selection that hands the old decoder's mute and pause state to the new one.
Construct_Inherit(old, id, fmt) ==
    [id |-> id, fmt |-> fmt, activated |-> TRUE, mute |-> old.mute, pause |-> old.pause,
     data |-> NoData, cc |-> "none", ts |-> "none"]

\* new ctrl::XController(packet, ...): a fresh controller, activated by its
\* constructor, that has received no mute() and no pause()/resume() call.
Construct(old, id, fmt) ==
    [id |-> id, fmt |-> fmt, activated |-> TRUE, mute |-> "none", pause |-> "none",
     data |-> NoData, cc |-> "none", ts |-> "none"]

\* Transport handlers whose mute(bool) arguments are exchanged.
ApplyTransport_Inverted(d, type) ==
    IF d = NoDecoder THEN d
    ELSE CASE type = "MUTE" -> [d EXCEPT !.mute = "unmuted"]
           [] type = "UNMUTE" -> [d EXCEPT !.mute = "muted"]
           [] type = "PAUSE" -> [d EXCEPT !.pause = "paused"]
           [] type = "RESUME" -> [d EXCEPT !.pause = "resumed"]
           [] OTHER -> d

\* Transport handlers without their if (mDecoder).
ApplyTransport_Unchecked(d, type) ==
    CASE type = "MUTE" -> [d EXCEPT !.mute = "muted"]
      [] type = "UNMUTE" -> [d EXCEPT !.mute = "unmuted"]
      [] type = "PAUSE" -> [d EXCEPT !.pause = "paused"]
      [] type = "RESUME" -> [d EXCEPT !.pause = "resumed"]
      [] OTHER -> d

\* processMutePacket, processUnmutePacket, processPause, processResume
ApplyTransport(d, type) ==
    IF d = NoDecoder THEN d
    ELSE CASE type = "MUTE" -> [d EXCEPT !.mute = "muted"]
           [] type = "UNMUTE" -> [d EXCEPT !.mute = "unmuted"]
           [] type = "PAUSE" -> [d EXCEPT !.pause = "paused"]
           [] type = "RESUME" -> [d EXCEPT !.pause = "resumed"]
           [] OTHER -> d

\* A processDataPacket without its if (mDecoder).
ProcessDataPacket_Unchecked(d, p) == [d EXCEPT !.data = [type |-> p.type, seq |-> p.seq, gen |-> p.gen]]

\* processDataPacket: if (mDecoder) mDecoder->addData(packet)
ProcessDataPacket(d, p) ==
    IF d # NoDecoder
    THEN [d EXCEPT !.data = [type |-> p.type, seq |-> p.seq, gen |-> p.gen]]
    ELSE d

\* An addBuffer that puts the buffer at the front: emplace_front.
Enqueue_Front(q, b) == <<b>> \o q

\* mDataQueue.emplace_back(std::move(buffer))
Enqueue(q, b) == Append(q, b)

\* buffer = std::move(mDataQueue.front())
Front(q) == Head(q)

\* mDataQueue.pop_front()
PopFront(q) == Tail(q)

\* The position a thread continues at when doOnPacketReceived returns:
\* processData loops, onPacketReceived goes on to notify_one.
Ret(t) == IF t = "render" THEN "pd_pop" ELSE "notify"

\* A notify_one that wakes nobody.
Notified_Lost == wake

\* mRenderCond.notify_one(): reaches the render thread only if it is blocked in a wait.
Notified == IF pc["render"] \in {"blocked", "timed_wait"} THEN TRUE ELSE wake

(***************************************************************************)
(* doOnPacketReceived: the dispatch, run by any of the three threads with  *)
(* mDecoderMutex held from its first step to its last.                     *)
(***************************************************************************)

\* case PAUSE, RESUME, MUTE, UNMUTE
DispatchTransport(t) ==
    /\ pc[t] = "dispatch" /\ mDecoderMutex = "none"
    /\ cur[t].type \in TransportTypes
    /\ mDecoder' = ApplyTransport(mDecoder, cur[t].type)
    /\ pc' = [pc EXCEPT ![t] = Ret(t)]
    /\ cur' = [cur EXCEPT ![t] = NoPacket]
    /\ mLastActiveTime' = TouchTime
    /\ UNCHANGED <<callerVars, mStarted, mSocket, mQuitRenderThread, newDecoder, mSessionType, mDataQueue,
                   mDecoderMutex, wake, nDecoders, nEnqueued>>

\* A default branch that drops the decoder, as the reset-all case does.
DispatchOther_Drops(t) ==
    /\ pc[t] = "dispatch" /\ mDecoderMutex = "none"
    /\ cur[t].type \in ForwardedTypes \cup OtherTypes
    /\ pc' = [pc EXCEPT ![t] = Ret(t)]
    /\ cur' = [cur EXCEPT ![t] = NoPacket]
    /\ mLastActiveTime' = TouchTime
    /\ mDecoder' = NoDecoder
    /\ UNCHANGED <<callerVars, mStarted, mSocket, mQuitRenderThread, newDecoder, mSessionType,
                   mDataQueue, mDecoderMutex, wake, nDecoders, nEnqueued>>

\* case TIMESTAMP (mStcProvider.processTimestamp), TTML_INFO (processInfo) and
\* default: calls that change nothing the session keeps.
DispatchOther(t) ==
    /\ pc[t] = "dispatch" /\ mDecoderMutex = "none"
    /\ cur[t].type \in ForwardedTypes \cup OtherTypes
    /\ pc' = [pc EXCEPT ![t] = Ret(t)]
    /\ cur' = [cur EXCEPT ![t] = NoPacket]
    /\ mLastActiveTime' = TouchTime
    /\ UNCHANGED <<callerVars, mStarted, mSocket, mQuitRenderThread, mDecoder, newDecoder, mSessionType,
                   mDataQueue, mDecoderMutex, wake, nDecoders, nEnqueued>>

\* processTtmlTimestamp, processWebvttTimestamp: if (mDecoder)
\*     mDecoder->processTimestamp(packet)
ProcessTimestamp(d, type) == IF d # NoDecoder THEN [d EXCEPT !.ts = type] ELSE d

\* case TTML_TIMESTAMP, WEBVTT_TIMESTAMP
DispatchTimestamp(t) ==
    /\ pc[t] = "dispatch" /\ mDecoderMutex = "none"
    /\ cur[t].type \in TimestampTypes
    /\ mDecoder' = ProcessTimestamp(mDecoder, cur[t].type)
    /\ pc' = [pc EXCEPT ![t] = Ret(t)]
    /\ cur' = [cur EXCEPT ![t] = NoPacket]
    /\ mLastActiveTime' = TouchTime
    /\ UNCHANGED <<callerVars, mStarted, mSocket, mQuitRenderThread, newDecoder, mSessionType,
                   mDataQueue, mDecoderMutex, wake, nDecoders, nEnqueued>>

\* A processSetCCAttributes that forwards to a decoder of any format.
ProcessSetCCAttributes_AnyFormat(d, tag) == IF d # NoDecoder THEN [d EXCEPT !.cc = "attrs"] ELSE d

\* processSetCCAttributes: if (mDecoder && mSessionType == SessionType::CC)
\*     mDecoder->processSetCCAttributesPacket(packet)
ProcessSetCCAttributes(d, tag) ==
    IF d # NoDecoder /\ tag = "CC" THEN [d EXCEPT !.cc = "attrs"] ELSE d

\* A doOnPacketReceived that dispatches SET_CC_ATTRIBUTES without taking
\* mDecoderMutex.
DispatchSetCCAttributes_Unlocked(t) ==
    /\ pc[t] = "dispatch"
    /\ cur[t].type = "SET_CC_ATTRIBUTES"
    /\ mDecoder' = ProcessSetCCAttributes(mDecoder, mSessionType)
    /\ pc' = [pc EXCEPT ![t] = IF cur[t].sub = "setCcAttributes" THEN "cc_notify" ELSE Ret(t)]
    /\ cur' = [cur EXCEPT ![t] = NoPacket]
    /\ mLastActiveTime' = TouchTime
    /\ UNCHANGED <<callerVars, mStarted, mSocket, mQuitRenderThread, newDecoder, mSessionType,
                   mDataQueue, mDecoderMutex, wake, nDecoders, nEnqueued>>

\* case SET_CC_ATTRIBUTES.  A setCcAttributes() call goes on to its refresh of the
\* preview (position "cc_notify"); the packet of another producer returns.
DispatchSetCCAttributes(t) ==
    /\ pc[t] = "dispatch" /\ mDecoderMutex = "none"
    /\ cur[t].type = "SET_CC_ATTRIBUTES"
    /\ mDecoder' = ProcessSetCCAttributes(mDecoder, mSessionType)
    /\ pc' = [pc EXCEPT ![t] = IF cur[t].sub = "setCcAttributes" THEN "cc_notify" ELSE Ret(t)]
    /\ cur' = [cur EXCEPT ![t] = NoPacket]
    /\ mLastActiveTime' = TouchTime
    /\ UNCHANGED <<callerVars, mStarted, mSocket, mQuitRenderThread, newDecoder, mSessionType,
                   mDataQueue, mDecoderMutex, wake, nDecoders, nEnqueued>>

\* case PES_DATA, TTML_DATA, WEBVTT_DATA, CC_DATA: processDataPacket
DispatchData(t) ==
    /\ pc[t] = "dispatch" /\ mDecoderMutex = "none"
    /\ cur[t].type \in DataTypes
    /\ mDecoder' = ProcessDataPacket(mDecoder, cur[t])
    /\ pc' = [pc EXCEPT ![t] = Ret(t)]
    /\ cur' = [cur EXCEPT ![t] = NoPacket]
    /\ mLastActiveTime' = TouchTime
    /\ UNCHANGED <<callerVars, mStarted, mSocket, mQuitRenderThread, newDecoder, mSessionType,
                   mDataQueue, mDecoderMutex, wake, nDecoders, nEnqueued>>

\* case RESET_CHANNEL, processResetChannel: if (mDecoder) the call
\* mDecoder->wantsData(packet), whose answer is the decoder's own.
ResetChannelAsk(t) ==
    /\ pc[t] = "dispatch" /\ mDecoderMutex = "none"
    /\ cur[t].type = "RESET_CHANNEL"
    /\ IF mDecoder # NoDecoder
       THEN /\ \E wants \in {"yes", "no"} : cur' = [cur EXCEPT ![t].sub = wants]
            /\ mDecoderMutex' = t
            /\ pc' = [pc EXCEPT ![t] = "rc_act"]
       ELSE /\ cur' = [cur EXCEPT ![t] = NoPacket]
            /\ mDecoderMutex' = mDecoderMutex
            /\ pc' = [pc EXCEPT ![t] = Ret(t)]
    /\ mLastActiveTime' = TouchTime
    /\ UNCHANGED <<callerVars, mStarted, mSocket, mQuitRenderThread, mDecoder, newDecoder, mSessionType,
                   mDataQueue, wake, nDecoders, nEnqueued>>

\* A processResetChannel that drops the decoder whatever wantsData answered.
ResetChannelDecoder_Always(d, wants) == NoDecoder

\* What processResetChannel leaves in mDecoder after wantsData answered `wants`:
\* deactivate() and reset() on "yes", nothing on "no".
ResetChannelDecoder(d, wants) == IF wants = "yes" THEN NoDecoder ELSE d

\* processResetChannel: the body of if (mDecoder->wantsData(packet))
ResetChannelAct(t) ==
    /\ pc[t] = "rc_act" /\ mDecoderMutex = t
    /\ mDecoder' = ResetChannelDecoder(mDecoder, cur[t].sub)
    /\ mDecoderMutex' = "none"
    /\ pc' = [pc EXCEPT ![t] = Ret(t)]
    /\ cur' = [cur EXCEPT ![t] = NoPacket]
    /\ UNCHANGED <<callerVars, mLastActiveTime, mStarted, mSocket, mQuitRenderThread, newDecoder, mSessionType, mDataQueue,
                   wake, nDecoders, nEnqueued>>

\* What the first block of processResetAll leaves in mDataQueue.
ResetAllQueue(d, q) == IF d # NoDecoder THEN <<>> ELSE q

\* A processResetAll that deactivates and drops the decoder inside the block that
\* holds mDataMutex.
ResetAllClear_Locked(t) ==
    /\ pc[t] = "dispatch" /\ mDecoderMutex = "none"
    /\ cur[t].type = "RESET_ALL"
    /\ mDataQueue' = ResetAllQueue(mDecoder, mDataQueue)
    /\ mDecoder' = NoDecoder
    /\ IF mDecoder # NoDecoder
       THEN /\ mDecoderMutex' = t
            /\ pc' = [pc EXCEPT ![t] = "ra_drop"]
            /\ cur' = cur
       ELSE /\ mDecoderMutex' = mDecoderMutex
            /\ pc' = [pc EXCEPT ![t] = Ret(t)]
            /\ cur' = [cur EXCEPT ![t] = NoPacket]
    /\ mLastActiveTime' = TouchTime
    /\ UNCHANGED <<callerVars, mStarted, mSocket, mQuitRenderThread, newDecoder, mSessionType,
                   wake, nDecoders, nEnqueued>>

\* case RESET_ALL, processResetAll up to mDataQueue.clear() (under mDataMutex).
ResetAllClear(t) ==
    /\ pc[t] = "dispatch" /\ mDecoderMutex = "none"
    /\ cur[t].type = "RESET_ALL"
    /\ mDataQueue' = ResetAllQueue(mDecoder, mDataQueue)
    /\ IF mDecoder # NoDecoder
       THEN /\ mDecoderMutex' = t
            /\ pc' = [pc EXCEPT ![t] = "ra_drop"]
            /\ cur' = cur
       ELSE /\ mDecoderMutex' = mDecoderMutex
            /\ pc' = [pc EXCEPT ![t] = Ret(t)]
            /\ cur' = [cur EXCEPT ![t] = NoPacket]
    /\ mLastActiveTime' = TouchTime
    /\ UNCHANGED <<callerVars, mStarted, mSocket, mQuitRenderThread, mDecoder, newDecoder, mSessionType,
                   wake, nDecoders, nEnqueued>>

\* processResetAll: mDecoder->deactivate(); mDecoder.reset()
ResetAllDrop(t) ==
    /\ pc[t] = "ra_drop" /\ mDecoderMutex = t
    /\ mDecoder' = NoDecoder
    /\ mDecoderMutex' = "none"
    /\ pc' = [pc EXCEPT ![t] = Ret(t)]
    /\ cur' = [cur EXCEPT ![t] = NoPacket]
    /\ UNCHANGED <<callerVars, mLastActiveTime, mStarted, mSocket, mQuitRenderThread, newDecoder, mSessionType, mDataQueue,
                   wake, nDecoders, nEnqueued>>

\* processDecoderSelection: if (mDecoder) mDecoder->deactivate()
SelDeactivate(t) ==
    /\ pc[t] = "dispatch" /\ mDecoderMutex = "none"
    /\ cur[t].type \in SelectionTypes
    /\ mDecoder' = Deactivate(mDecoder)
    /\ mDecoderMutex' = t
    /\ pc' = [pc EXCEPT ![t] = "sel_construct"]
    /\ mLastActiveTime' = TouchTime
    /\ UNCHANGED <<callerVars, mStarted, mSocket, mQuitRenderThread, newDecoder, mSessionType, mDataQueue,
                   cur, wake, nDecoders, nEnqueued>>

\* processDecoderSelection: `new ctrl::XController(...)`, evaluated before reset()
\* releases the old object; the default branches construct nothing.
SelConstruct(t) ==
    /\ pc[t] = "sel_construct" /\ mDecoderMutex = t
    /\ IF SelectedFormat(cur[t]) # "NONE"
       THEN /\ newDecoder' = Construct(mDecoder, nDecoders + 1, SelectedFormat(cur[t]))
            /\ nDecoders' = nDecoders + 1
       ELSE UNCHANGED <<newDecoder, nDecoders>>
    /\ pc' = [pc EXCEPT ![t] = "sel_reset"]
    /\ UNCHANGED <<callerVars, mLastActiveTime, mStarted, mSocket, mQuitRenderThread, mDecoder, mSessionType, mDataQueue,
                   mDecoderMutex, cur, wake, nEnqueued>>

\* processDecoderSelection: mDecoder.reset(...) and the assignment of mSessionType
SelReset(t) ==
    /\ pc[t] = "sel_reset" /\ mDecoderMutex = t
    /\ mDecoder' = newDecoder
    /\ newDecoder' = NoDecoder
    /\ mSessionType' = IF SelectedFormat(cur[t]) # "NONE" THEN SelectedFormat(cur[t])
                       ELSE mSessionType
    /\ mDecoderMutex' = "none"
    /\ pc' = [pc EXCEPT ![t] = Ret(t)]
    /\ cur' = [cur EXCEPT ![t] = NoPacket]
    /\ UNCHANGED <<callerVars, mLastActiveTime, mStarted, mSocket, mQuitRenderThread, mDataQueue, wake,
                   nDecoders, nEnqueued>>

Dispatch(t) ==
    \/ DispatchTransport(t)
    \/ DispatchOther(t)
    \/ DispatchData(t)
    \/ ResetChannelAsk(t)
    \/ ResetChannelAct(t)
    \/ ResetAllClear(t)
    \/ ResetAllDrop(t)
    \/ SelDeactivate(t)
    \/ SelConstruct(t)
    \/ SelReset(t)

(***************************************************************************)
(* addBuffer and onPacketReceived, called by the api and the sock thread   *)
(***************************************************************************)

\* addBuffer: if (isRenderingActive()), a read under mDecoderMutex
AddBufferCheck(t) ==
    /\ pc[t] = "ab_check" /\ mDecoderMutex = "none"
    /\ IF isRenderingActive
       THEN /\ pc' = [pc EXCEPT ![t] = "ab_push"]
            /\ cur' = cur
       ELSE /\ pc' = [pc EXCEPT ![t] = "idle"]
            /\ cur' = [cur EXCEPT ![t] = NoPacket]
    /\ UNCHANGED <<callerVars, mLastActiveTime, mStarted, mSocket, mQuitRenderThread, mDecoder, newDecoder, mSessionType,
                   mDataQueue, mDecoderMutex, wake, nDecoders, nEnqueued>>

\* addBuffer: mDataQueue.emplace_back(std::move(buffer)) under mDataMutex
AddBufferPush(t) ==
    /\ pc[t] = "ab_push"
    /\ mDataQueue' = Enqueue(mDataQueue, [cur[t] EXCEPT !.seq = nEnqueued + 1, !.gen = nDecoders])
    /\ nEnqueued' = nEnqueued + 1
    /\ pc' = [pc EXCEPT ![t] = "notify"]
    /\ cur' = [cur EXCEPT ![t] = NoPacket]
    /\ UNCHANGED <<callerVars, mLastActiveTime, mStarted, mSocket, mQuitRenderThread, mDecoder, newDecoder, mSessionType,
                   mDecoderMutex, wake, nDecoders>>

\* mRenderCond.notify_one(), the last statement of addBuffer and of onPacketReceived
Notify(t) ==
    /\ pc[t] = "notify"
    /\ wake' = Notified
    /\ pc' = [pc EXCEPT ![t] = "idle"]
    /\ UNCHANGED <<callerVars, mLastActiveTime, mStarted, mSocket, mQuitRenderThread, mDecoder, newDecoder, mSessionType,
                   mDataQueue, mDecoderMutex, cur, nDecoders, nEnqueued>>

(***************************************************************************)
(* processLoop and processData: the render thread.  It holds mRenderMutex  *)
(* everywhere but in "blocked" and "timed_wait".                           *)
(***************************************************************************)

\* while (!mQuitRenderThread)
RenderLoop ==
    /\ pc["render"] = "loop"
    /\ pc' = [pc EXCEPT !["render"] = IF mQuitRenderThread THEN "off" ELSE "wait_pred"]
    /\ UNCHANGED <<callerVars, mLastActiveTime, mStarted, mSocket, mQuitRenderThread, mDecoder, newDecoder, mSessionType,
                   mDataQueue, mDecoderMutex, cur, wake, nDecoders, nEnqueued>>

\* The predicate of mRenderCond.wait, first half: mQuitRenderThread || (isRenderingActive() && ...
RenderWaitPred ==
    /\ pc["render"] = "wait_pred"
    /\ \/ mQuitRenderThread
       \/ mDecoderMutex = "none"
    /\ pc' = [pc EXCEPT !["render"] = IF mQuitRenderThread THEN "inner"
                                      ELSE IF isRenderingActive THEN "wait_pred2"
                                      ELSE "blocking"]
    /\ wake' = FALSE
    /\ UNCHANGED <<callerVars, mLastActiveTime, mStarted, mSocket, mQuitRenderThread, mDecoder, newDecoder, mSessionType,
                   mDataQueue, mDecoderMutex, cur, nDecoders, nEnqueued>>

\* The predicate of mRenderCond.wait, second half: ... && isDataQueued())
RenderWaitPred2 ==
    /\ pc["render"] = "wait_pred2"
    /\ pc' = [pc EXCEPT !["render"] = IF isDataQueued THEN "inner" ELSE "blocking"]
    /\ wake' = FALSE
    /\ UNCHANGED <<callerVars, mLastActiveTime, mStarted, mSocket, mQuitRenderThread, mDecoder, newDecoder, mSessionType,
                   mDataQueue, mDecoderMutex, cur, nDecoders, nEnqueued>>

\* mRenderCond.wait, its predicate found false: mRenderMutex is released and the
\* thread blocks, in one step.  A notify_one issued before this step, by a
\* producer that does not hold mRenderMutex, finds no waiting thread.
RenderBlock ==
    /\ pc["render"] = "blocking"
    /\ pc' = [pc EXCEPT !["render"] = "blocked"]
    /\ UNCHANGED <<callerVars, mLastActiveTime, mStarted, mSocket, mQuitRenderThread, mDecoder,
                   newDecoder, mSessionType, mDataQueue, mDecoderMutex, cur, wake, nDecoders,
                   nEnqueued>>

\* mRenderCond.wait wakes on a notify_one and evaluates its predicate again.
RenderWake ==
    /\ pc["render"] = "blocked" /\ wake
    /\ pc' = [pc EXCEPT !["render"] = "wait_pred"]
    /\ wake' = FALSE
    /\ UNCHANGED <<callerVars, mLastActiveTime, mStarted, mSocket, mQuitRenderThread, mDecoder, newDecoder, mSessionType,
                   mDataQueue, mDecoderMutex, cur, nDecoders, nEnqueued>>

\* std::condition_variable::wait may wake spuriously.
RenderSpuriousWake ==
    /\ pc["render"] = "blocked" /\ ~wake
    /\ pc' = [pc EXCEPT !["render"] = "wait_pred"]
    /\ UNCHANGED <<callerVars, mLastActiveTime, mStarted, mSocket, mQuitRenderThread, mDecoder, newDecoder, mSessionType,
                   mDataQueue, mDecoderMutex, cur, wake, nDecoders, nEnqueued>>

\* while (!mQuitRenderThread && isRenderingActive())
RenderInner ==
    /\ pc["render"] = "inner"
    /\ \/ mQuitRenderThread
       \/ mDecoderMutex = "none"
    /\ pc' = [pc EXCEPT !["render"] = IF ~mQuitRenderThread /\ isRenderingActive
                                      THEN "pd_pop" ELSE "clear"]
    /\ UNCHANGED <<callerVars, mLastActiveTime, mStarted, mSocket, mQuitRenderThread, mDecoder, newDecoder, mSessionType,
                   mDataQueue, mDecoderMutex, cur, wake, nDecoders, nEnqueued>>

\* processData: the block under mDataMutex that takes the front buffer, or breaks
RenderPop ==
    /\ pc["render"] = "pd_pop"
    /\ IF mDataQueue # <<>>
       THEN /\ cur' = [cur EXCEPT !["render"] = Front(mDataQueue)]
            /\ mDataQueue' = PopFront(mDataQueue)
            /\ pc' = [pc EXCEPT !["render"] = "dispatch"]
       ELSE /\ pc' = [pc EXCEPT !["render"] = "pd_process"]
            /\ UNCHANGED <<callerVars, mLastActiveTime, cur, mDataQueue>>
    /\ UNCHANGED <<callerVars, mLastActiveTime, mStarted, mSocket, mQuitRenderThread, mDecoder, newDecoder, mSessionType,
                   mDecoderMutex, wake, nDecoders, nEnqueued>>

\* processData: mDecoder->process(); return mDecoder->getWaitTime() (zero without a
\* decoder), then, in processLoop, execute(), the break on zero, or wait_for.
RenderProcess ==
    /\ pc["render"] = "pd_process" /\ mDecoderMutex = "none"
    /\ \E w \in {0, 1} :
          /\ mDecoder = NoDecoder => w = 0
          /\ pc' = [pc EXCEPT !["render"] = IF w = 0 THEN "clear" ELSE "timed_wait"]
    /\ wake' = FALSE
    /\ UNCHANGED <<callerVars, mLastActiveTime, mStarted, mSocket, mQuitRenderThread, mDecoder, newDecoder, mSessionType,
                   mDataQueue, mDecoderMutex, cur, nDecoders, nEnqueued>>

\* mRenderCond.wait_for(lock, processWaitTime, pred): the duration elapses.
RenderTimedWaitTimeout ==
    /\ pc["render"] = "timed_wait"
    /\ pc' = [pc EXCEPT !["render"] = "inner"]
    /\ wake' = FALSE
    /\ UNCHANGED <<callerVars, mLastActiveTime, mStarted, mSocket, mQuitRenderThread, mDecoder, newDecoder, mSessionType,
                   mDataQueue, mDecoderMutex, cur, nDecoders, nEnqueued>>

\* mRenderCond.wait_for(lock, processWaitTime, pred): a notify_one wakes it; it
\* returns only if its predicate, mQuitRenderThread, holds.
RenderTimedWaitWake ==
    /\ pc["render"] = "timed_wait" /\ wake
    /\ pc' = [pc EXCEPT !["render"] = IF mQuitRenderThread THEN "inner" ELSE "timed_wait"]
    /\ wake' = FALSE
    /\ UNCHANGED <<callerVars, mLastActiveTime, mStarted, mSocket, mQuitRenderThread, mDecoder, newDecoder, mSessionType,
                   mDataQueue, mDecoderMutex, cur, nDecoders, nEnqueued>>

\* processLoop: LockGuard datalock{mDataMutex}; mDataQueue.clear()
RenderClear ==
    /\ pc["render"] = "clear"
    /\ mDataQueue' = <<>>
    /\ pc' = [pc EXCEPT !["render"] = "loop"]
    /\ UNCHANGED <<callerVars, mLastActiveTime, mStarted, mSocket, mQuitRenderThread, mDecoder, newDecoder, mSessionType,
                   mDecoderMutex, cur, wake, nDecoders, nEnqueued>>

(***************************************************************************)
(* The calls of the session registry (thread "api")                        *)
(***************************************************************************)

\* The packets the public control calls synthesize with BuildPacket:
\* selectCcService, selectTtxService, selectWebvttService, selectTtmlService,
\* pause, resume, mute, unmute and reset.
ApiPackets ==
    {<<"SUBTITLE_SELECTION", "CC">>, <<"TTML_SELECTION", "-">>,
     <<"MUTE", "-">>, <<"RESET_CHANNEL", "-">>}

\* The packet type sendData gives each RenderSession::DataType.
SendDataPacketType(dataType) ==
    CASE dataType = "PES" -> "PES_DATA"
      [] dataType = "TTML" -> "TTML_DATA"
      [] dataType = "WEBVTT" -> "WEBVTT_DATA"
      [] dataType = "CC" -> "CC_DATA"

\* Selection packets on their way to a dispatch: each may construct a decoder.
PendingSelections ==
    Cardinality({i \in DOMAIN mDataQueue : mDataQueue[i].type \in SelectionTypes})
    + Cardinality({t \in Threads : /\ cur[t].type \in SelectionTypes
                                   /\ pc[t] \in {"ab_check", "ab_push", "dispatch", "sel_construct"}})

\* A further selection packet keeps the decoders constructed within MaxDecoders.
SelectionAllowed(type) == type \in SelectionTypes => nDecoders + PendingSelections < MaxDecoders

\* A further buffer keeps the buffers that enter mDataQueue within MaxBuffers.
BufferAllowed ==
    nEnqueued + Cardinality({t \in Threads : pc[t] \in {"ab_check", "ab_push"}}) < MaxBuffers

\* start(), up to the start of the socket source
ApiStart ==
    /\ pc["api"] = "idle"
    /\ ~mStarted
    /\ mStarted' = TRUE
    /\ mSocket' = TRUE
    /\ pc' = [pc EXCEPT !["api"] = "start_thread"]
    /\ UNCHANGED <<callerVars, mLastActiveTime, mQuitRenderThread, mDecoder, newDecoder, mSessionType, mDataQueue,
                   mDecoderMutex, cur, wake, nDecoders, nEnqueued>>

\* start(): mQuitRenderThread = false; mRenderThread = std::thread(processLoop)
StartThread ==
    /\ pc["api"] = "start_thread"
    /\ mQuitRenderThread' = FALSE
    /\ pc' = [pc EXCEPT !["api"] = "idle", !["render"] = "loop"]
    /\ UNCHANGED <<callerVars, mLastActiveTime, mStarted, mSocket, mDecoder, newDecoder, mSessionType, mDataQueue,
                   mDecoderMutex, cur, wake, nDecoders, nEnqueued>>

\* stop(): mStarted = false
ApiStop ==
    /\ pc["api"] = "idle"
    /\ mStarted
    /\ mStarted' = FALSE
    /\ pc' = [pc EXCEPT !["api"] = "stop_socket"]
    /\ UNCHANGED <<callerVars, mLastActiveTime, mSocket, mQuitRenderThread, mDecoder, newDecoder, mSessionType, mDataQueue,
                   mDecoderMutex, cur, wake, nDecoders, nEnqueued>>

\* stop(): mSocket->stop() waits for the source's thread; mSocket.reset()
StopSocket ==
    /\ pc["api"] = "stop_socket"
    /\ pc["sock"] = "idle"
    /\ mSocket' = FALSE
    /\ pc' = [pc EXCEPT !["api"] = "stop_quit"]
    /\ UNCHANGED <<callerVars, mLastActiveTime, mStarted, mQuitRenderThread, mDecoder, newDecoder, mSessionType, mDataQueue,
                   mDecoderMutex, cur, wake, nDecoders, nEnqueued>>

\* stop(): { LockGuard lock{mRenderMutex}; mQuitRenderThread = true; }
StopQuit ==
    /\ pc["api"] = "stop_quit"
    /\ pc["render"] \in {"blocked", "timed_wait", "off"}
    /\ mQuitRenderThread' = TRUE
    /\ pc' = [pc EXCEPT !["api"] = "stop_notify"]
    /\ UNCHANGED <<callerVars, mLastActiveTime, mStarted, mSocket, mDecoder, newDecoder, mSessionType, mDataQueue,
                   mDecoderMutex, cur, wake, nDecoders, nEnqueued>>

\* stop(): mRenderCond.notify_one()
StopNotify ==
    /\ pc["api"] = "stop_notify"
    /\ wake' = Notified
    /\ pc' = [pc EXCEPT !["api"] = "stop_join"]
    /\ UNCHANGED <<callerVars, mLastActiveTime, mStarted, mSocket, mQuitRenderThread, mDecoder, newDecoder, mSessionType,
                   mDataQueue, mDecoderMutex, cur, nDecoders, nEnqueued>>

\* stop(): mRenderThread.join(), then mDataQueue.clear() under mDataMutex
StopJoin ==
    /\ pc["api"] = "stop_join"
    /\ pc["render"] = "off"
    /\ mDataQueue' = <<>>
    /\ pc' = [pc EXCEPT !["api"] = "stop_decoder"]
    /\ UNCHANGED <<callerVars, mLastActiveTime, mStarted, mSocket, mQuitRenderThread, mDecoder, newDecoder, mSessionType,
                   mDecoderMutex, cur, wake, nDecoders, nEnqueued>>

\* A stop() that deactivates the decoder and keeps it.
StopResetDecoder_Kept(d) == Deactivate(d)

\* What stop() leaves in mDecoder: mDecoder->deactivate(); mDecoder.reset()
StopResetDecoder(d) == IF d # NoDecoder THEN NoDecoder ELSE d

\* stop(): if (mDecoder) { mDecoder->deactivate(); mDecoder.reset(); }
StopDecoder ==
    /\ pc["api"] = "stop_decoder" /\ mDecoderMutex = "none"
    /\ mDecoder' = StopResetDecoder(mDecoder)
    /\ pc' = [pc EXCEPT !["api"] = "idle"]
    /\ UNCHANGED <<callerVars, mLastActiveTime, mStarted, mSocket, mQuitRenderThread, newDecoder, mSessionType, mDataQueue,
                   mDecoderMutex, cur, wake, nDecoders, nEnqueued>>

\* The RenderSession::DataType values the model's caller passes to sendData.
SentDataTypes == {"TTML", "CC"}

\* sendData(type, data, offsetMs): BuildPacket, then addBuffer(bp)
ApiSendData ==
    /\ pc["api"] = "idle" /\ mStarted
    /\ BufferAllowed
    /\ \E dataType \in SentDataTypes :
          cur' = [cur EXCEPT !["api"] =
                     Packet(SendDataPacketType(dataType), "-", "api")]
    /\ pc' = [pc EXCEPT !["api"] = "ab_check"]
    /\ UNCHANGED <<callerVars, mLastActiveTime, mStarted, mSocket, mQuitRenderThread, mDecoder, newDecoder, mSessionType,
                   mDataQueue, mDecoderMutex, wake, nDecoders, nEnqueued>>

\* select*Service, pause, resume, mute, unmute, reset: BuildPacket, then
\* onPacketReceived(mParser.parse(bp))
ApiControl ==
    /\ pc["api"] = "idle" /\ mStarted
    /\ \E k \in ApiPackets :
          /\ SelectionAllowed(k[1])
          /\ cur' = [cur EXCEPT !["api"] = Packet(k[1], k[2], "api")]
    /\ pc' = [pc EXCEPT !["api"] = "dispatch"]
    /\ UNCHANGED <<callerVars, mLastActiveTime, mStarted, mSocket, mQuitRenderThread, mDecoder, newDecoder, mSessionType,
                   mDataQueue, mDecoderMutex, wake, nDecoders, nEnqueued>>

(***************************************************************************)
(* The callbacks of the socket source (thread "sock")                      *)
(***************************************************************************)

\* The packets the socket source hands over parsed, by onPacketReceived.
SockPackets == {<<"RESET_ALL", "-">>, <<"TIMESTAMP", "-">>}

\* The packets the socket source hands over raw, by addBuffer (a choice of kinds
\* that keeps the queue contents few).
SockBuffers ==
    {<<"PES_DATA", "-">>, <<"RESET_ALL", "-">>, <<"TTML_SELECTION", "-">>}

\* PacketReceiver::onPacketReceived called by the socket source
SockPacket ==
    /\ pc["sock"] = "idle" /\ mSocket
    /\ \E k \in SockPackets :
          /\ SelectionAllowed(k[1])
          /\ cur' = [cur EXCEPT !["sock"] = Packet(k[1], k[2], "sock")]
    /\ pc' = [pc EXCEPT !["sock"] = "dispatch"]
    /\ UNCHANGED <<callerVars, mLastActiveTime, mStarted, mSocket, mQuitRenderThread, mDecoder, newDecoder, mSessionType,
                   mDataQueue, mDecoderMutex, wake, nDecoders, nEnqueued>>

\* PacketReceiver::addBuffer called by the socket source
SockAddBuffer ==
    /\ pc["sock"] = "idle" /\ mSocket
    /\ BufferAllowed
    /\ \E k \in SockBuffers :
          /\ SelectionAllowed(k[1])
          /\ cur' = [cur EXCEPT !["sock"] = Packet(k[1], k[2], "sock")]
    /\ pc' = [pc EXCEPT !["sock"] = "ab_check"]
    /\ UNCHANGED <<callerVars, mLastActiveTime, mStarted, mSocket, mQuitRenderThread, mDecoder, newDecoder, mSessionType,
                   mDataQueue, mDecoderMutex, wake, nDecoders, nEnqueued>>

Next ==
    \/ \E t \in Threads : Dispatch(t)
    \/ \E t \in {"api", "sock"} : AddBufferCheck(t) \/ AddBufferPush(t) \/ Notify(t)
    \/ RenderLoop \/ RenderWaitPred \/ RenderWaitPred2 \/ RenderBlock \/ RenderWake
    \/ RenderSpuriousWake
    \/ RenderInner \/ RenderPop \/ RenderProcess \/ RenderTimedWaitTimeout
    \/ RenderTimedWaitWake \/ RenderClear
    \/ ApiStart \/ StartThread \/ ApiSendData \/ ApiControl
    \/ SockPacket \/ SockAddBuffer

Spec == Init /\ [][Next]_vars

(***************************************************************************)
(* The sequential dispatch: the session after start(), the render thread   *)
(* asleep in its outer wait, and the socket source handing over packets of *)
(* every type one after the other.                                         *)
(***************************************************************************)

\* Every packet doOnPacketReceived tells apart, but the two decoder timestamps
\* (SpecTimestamp sends those).
AllPackets ==
    {<<ty, "-">> : ty \in (SelectionTypes \ {"SUBTITLE_SELECTION"}) \cup DataTypes
                          \cup TransportTypes \cup ForwardedTypes \cup OtherTypes
                          \cup {"RESET_ALL", "RESET_CHANNEL", "SET_CC_ATTRIBUTES"}}
    \cup {<<"SUBTITLE_SELECTION", st>> : st \in SubtitleTypes}

\* The state start() and the first pass of processLoop to its outer wait leave.
InitDispatch ==
    /\ mStarted = TRUE
    /\ mSocket = TRUE
    /\ mQuitRenderThread = FALSE
    /\ mDecoder = NoDecoder
    /\ newDecoder = NoDecoder
    /\ mSessionType = "NONE"
    /\ mDataQueue = <<>>
    /\ mDecoderMutex = "none"
    /\ pc = [t \in Threads |-> IF t = "render" THEN "blocked" ELSE "idle"]
    /\ cur = [t \in Threads |-> NoPacket]
    /\ wake = FALSE
    /\ nDecoders = 0
    /\ nEnqueued = 0
    /\ InitCaller

\* PacketReceiver::onPacketReceived called with a packet of any type
SockAnyPacket ==
    /\ pc["sock"] = "idle" /\ mSocket
    /\ \E k \in AllPackets :
          /\ SelectionAllowed(k[1])
          /\ cur' = [cur EXCEPT !["sock"] = Packet(k[1], k[2], "sock")]
    /\ pc' = [pc EXCEPT !["sock"] = "dispatch"]
    /\ UNCHANGED <<callerVars, mLastActiveTime, mStarted, mSocket, mQuitRenderThread, mDecoder, newDecoder, mSessionType,
                   mDataQueue, mDecoderMutex, wake, nDecoders, nEnqueued>>

NextDispatch ==
    \/ SockAnyPacket
    \/ SockAddBuffer
    \/ Dispatch("sock") \/ DispatchSetCCAttributes("sock")
    \/ AddBufferCheck("sock") \/ AddBufferPush("sock") \/ Notify("sock")

SpecDispatch == InitDispatch /\ [][NextDispatch]_vars

(***************************************************************************)
(* The whole life of a session: start() that may fail, stop(), a restart,  *)
(* and the calls of the registry that Spec leaves out.                     *)
(***************************************************************************)

\* start() when UnixSocketSourceFactory().create returns no source: mStarted is
\* already true when the exception is thrown.
ApiStartFail ==
    /\ pc["api"] = "idle"
    /\ ~mStarted
    /\ mStarted' = TRUE
    /\ pc' = [pc EXCEPT !["api"] = "start_throw"]
    /\ UNCHANGED <<callerVars, mLastActiveTime, mSocket, mQuitRenderThread, mDecoder, newDecoder, mSessionType,
                   mDataQueue, mDecoderMutex, cur, wake, nDecoders, nEnqueued>>

\* start(): throw std::runtime_error("error while creating source")
StartThrow ==
    /\ pc["api"] = "start_throw"
    /\ pc' = [pc EXCEPT !["api"] = "idle"]
    /\ UNCHANGED <<callerVars, mLastActiveTime, mStarted, mSocket, mQuitRenderThread, mDecoder, newDecoder,
                   mSessionType, mDataQueue, mDecoderMutex, cur, wake, nDecoders, nEnqueued>>

\* pause(), resume(), mute(), unmute()
ApiTransport ==
    /\ pc["api"] = "idle" /\ mStarted
    /\ \E ty \in TransportTypes : cur' = [cur EXCEPT !["api"] = Packet(ty, "-", "api")]
    /\ pc' = [pc EXCEPT !["api"] = "dispatch"]
    /\ UNCHANGED <<callerVars, mLastActiveTime, mStarted, mSocket, mQuitRenderThread, mDecoder, newDecoder,
                   mSessionType, mDataQueue, mDecoderMutex, wake, nDecoders, nEnqueued>>

\* CloseSession: session->mute(); touchTime(); close(), which does nothing to the
\* decoder.  The packet's sub marks the mute() as CloseSession's.
ApiClose ==
    /\ pc["api"] = "idle" /\ mStarted
    /\ cur' = [cur EXCEPT !["api"] = Packet("MUTE", "close", "api")]
    /\ pc' = [pc EXCEPT !["api"] = "dispatch"]
    /\ UNCHANGED <<callerVars, mLastActiveTime, mStarted, mSocket, mQuitRenderThread, mDecoder, newDecoder,
                   mSessionType, mDataQueue, mDecoderMutex, wake, nDecoders, nEnqueued>>

\* setCcAttributes(): BuildPacket, onPacketReceived(mParser.parse(bp))
ApiSetCcAttributes ==
    /\ pc["api"] = "idle" /\ mStarted
    /\ cur' = [cur EXCEPT !["api"] = Packet("SET_CC_ATTRIBUTES", "setCcAttributes", "api")]
    /\ pc' = [pc EXCEPT !["api"] = "dispatch"]
    /\ UNCHANGED <<callerVars, mLastActiveTime, mStarted, mSocket, mQuitRenderThread, mDecoder, newDecoder,
                   mSessionType, mDataQueue, mDecoderMutex, wake, nDecoders, nEnqueued>>

\* setCcAttributes(): the notify_one that ends its onPacketReceived
CcNotify ==
    /\ pc["api"] = "cc_notify"
    /\ wake' = Notified
    /\ pc' = [pc EXCEPT !["api"] = "cc_refresh"]
    /\ UNCHANGED <<callerVars, mLastActiveTime, mStarted, mSocket, mQuitRenderThread, mDecoder, newDecoder,
                   mSessionType, mDataQueue, mDecoderMutex, cur, nDecoders, nEnqueued>>

\* A refresh that does not look at the stored preview text.
RefreshPreview_Never(d, tag, text) == d

\* setCcAttributes(): if (!mPreviewText.empty() && mDecoder && mSessionType == CC)
\*     ccDecoder->setTextForPreview(mPreviewText)
RefreshPreview(d, tag, text) ==
    IF text # "" /\ d # NoDecoder /\ tag = "CC" THEN [d EXCEPT !.cc = "preview"] ELSE d

\* setCcAttributes(): the block under mDecoderMutex after onPacketReceived
CcRefresh ==
    /\ pc["api"] = "cc_refresh" /\ mDecoderMutex = "none"
    /\ mDecoder' = RefreshPreview(mDecoder, mSessionType, mPreviewText)
    /\ pc' = [pc EXCEPT !["api"] = "idle"]
    /\ UNCHANGED <<callerVars, mLastActiveTime, mStarted, mSocket, mQuitRenderThread, newDecoder, mSessionType,
                   mDataQueue, mDecoderMutex, cur, wake, nDecoders, nEnqueued>>

\* The texts the model's caller passes to SetPreviewText.
PreviewTexts == {"", "text"}

\* setTextForClosedCaptionPreview: if (mDecoder && mSessionType == CC)
\*     ccDecoder->setTextForPreview(text)
SetTextForPreview(d, tag) ==
    IF d # NoDecoder /\ tag = "CC" THEN [d EXCEPT !.cc = "preview"] ELSE d

\* SetPreviewText on a session whose getSessionType() is CC:
\* setTextForClosedCaptionPreview(text), all of it under mDecoderMutex
ApiSetPreview ==
    /\ pc["api"] = "idle" /\ mStarted
    /\ mSessionType = "CC" /\ mDecoderMutex = "none"
    /\ \E text \in PreviewTexts : mPreviewText' = text
    /\ mDecoder' = SetTextForPreview(mDecoder, mSessionType)
    /\ mLastActiveTime' = TouchTime
    /\ UNCHANGED <<outerVars, mStarted, mSocket, mQuitRenderThread, newDecoder, mSessionType,
                   mDataQueue, mDecoderMutex, pc, cur, wake, nDecoders, nEnqueued>>

\* PacketReceiver::onPacketReceived called with a SET_CC_ATTRIBUTES packet
SockSetCcAttributes ==
    /\ pc["sock"] = "idle" /\ mSocket
    /\ cur' = [cur EXCEPT !["sock"] = Packet("SET_CC_ATTRIBUTES", "-", "sock")]
    /\ pc' = [pc EXCEPT !["sock"] = "dispatch"]
    /\ UNCHANGED <<callerVars, mLastActiveTime, mStarted, mSocket, mQuitRenderThread, mDecoder, newDecoder,
                   mSessionType, mDataQueue, mDecoderMutex, wake, nDecoders, nEnqueued>>

\* The steps of the render thread.
Render ==
    \/ RenderLoop \/ RenderWaitPred \/ RenderWaitPred2 \/ RenderBlock \/ RenderWake
    \/ RenderSpuriousWake
    \/ RenderInner \/ RenderPop \/ RenderProcess \/ RenderTimedWaitTimeout
    \/ RenderTimedWaitWake \/ RenderClear

\* start(), stop() and a restart of a session whose socket source is silent,
\* between the registry's data, selection, mute, reset and close calls.
NextStop ==
    \/ \E t \in {"api", "render"} :
          \/ DispatchTransport(t) \/ DispatchData(t)
          \/ ResetChannelAsk(t) \/ ResetChannelAct(t)
          \/ SelDeactivate(t) \/ SelConstruct(t) \/ SelReset(t)
    \/ AddBufferCheck("api") \/ AddBufferPush("api") \/ Notify("api")
    \/ Render
    \/ ApiStart \/ StartThread \/ ApiSendData \/ ApiControl \/ ApiClose
    \/ ApiStartFail \/ StartThrow
    \/ ApiStop \/ StopSocket \/ StopQuit \/ StopNotify \/ StopJoin \/ StopDecoder

\* The same with pause(), resume(), mute() and unmute() among the calls.
NextLifecycle == NextStop \/ ApiTransport

SpecLifecycle == Init /\ [][NextLifecycle]_vars

\* The steps the render thread takes when scheduled: all of processLoop but a
\* spurious wake-up, which no implementation promises, and the dispatch of a
\* buffer it has taken, whose decoder calls return.
RenderRuns ==
    \/ RenderLoop \/ RenderWaitPred \/ RenderWaitPred2 \/ RenderBlock \/ RenderWake
    \/ RenderInner \/ RenderPop \/ RenderProcess \/ RenderTimedWaitTimeout
    \/ RenderTimedWaitWake \/ RenderClear
    \/ DispatchTransport("render") \/ DispatchData("render")
    \/ ResetChannelAsk("render") \/ ResetChannelAct("render")
    \/ SelDeactivate("render") \/ SelConstruct("render") \/ SelReset("render")

\* The steps of stop() after its first that wait for no lock the render thread holds
StopRuns == StopSocket \/ StopNotify \/ StopJoin \/ StopDecoder

\* The life of a session under a scheduler that lets a thread run that can, and
\* a mRenderMutex that stop() gets if the render thread releases it again and
\* again (it does whenever it blocks in a wait).
SpecStopFair ==
    /\ Init /\ [][NextStop]_vars
    /\ WF_vars(RenderRuns) /\ WF_vars(StopRuns) /\ SF_vars(StopQuit)

\* The steps by which a call of the registry's thread that has begun goes on to
\* its return (every decoder call returns, every lock it waits for is released).
ApiRuns ==
    \/ DispatchTransport("api") \/ DispatchData("api")
    \/ ResetChannelAsk("api") \/ ResetChannelAct("api")
    \/ SelDeactivate("api") \/ SelConstruct("api") \/ SelReset("api")
    \/ AddBufferCheck("api") \/ AddBufferPush("api") \/ Notify("api")
    \/ StartThread \/ StartThrow
    \/ StopRuns

\* The sessions in which every call that has begun returns and the render thread
\* gets every lock it asks for again and again (strong fairness: a mutex may be
\* taken by others in between).
SpecRenderFair ==
    /\ Init /\ [][NextStop]_vars
    /\ SF_vars(RenderRuns)
    /\ WF_vars(ApiRuns)
    /\ SF_vars(StopQuit)

\* A started session whose render thread sleeps in its outer wait, between the
\* registry's selection, reset, CC-attribute and preview calls and a socket
\* source that delivers SET_CC_ATTRIBUTES packets.
NextCc ==
    \/ \E t \in {"api", "sock"} :
          \/ DispatchTransport(t) \/ DispatchSetCCAttributes(t)
          \/ ResetChannelAsk(t) \/ ResetChannelAct(t)
          \/ SelDeactivate(t) \/ SelConstruct(t) \/ SelReset(t)
          \/ Notify(t)
    \/ ApiControl
    \/ ApiSetCcAttributes \/ CcNotify \/ CcRefresh \/ ApiSetPreview
    \/ SockSetCcAttributes

SpecCc == InitDispatch /\ [][NextCc]_vars

(***************************************************************************)
(* Decoder timestamps: sendTimestamp() of the registry's thread and the    *)
(* TTML_TIMESTAMP and WEBVTT_TIMESTAMP packets of the socket source, among *)
(* selections and the other control calls.                                 *)
(***************************************************************************)

\* The packet type sendTimestamp builds for a session type; "none" stands for
\* its default branch, which sends nothing.
SendTimestampType(tag) ==
    CASE tag = "WEBVTT" -> "WEBVTT_TIMESTAMP"
      [] tag = "TTML" -> "TTML_TIMESTAMP"
      [] OTHER -> "none"

\* sendTimestamp(iMediaTimestampMs): switch (mSessionType), BuildPacket,
\* onPacketReceived(mParser.parse(bp))
ApiSendTimestamp ==
    /\ pc["api"] = "idle" /\ mStarted
    /\ SendTimestampType(mSessionType) # "none"
    /\ cur' = [cur EXCEPT !["api"] = Packet(SendTimestampType(mSessionType), "-", "api")]
    /\ pc' = [pc EXCEPT !["api"] = "dispatch"]
    /\ UNCHANGED <<callerVars, mLastActiveTime, mStarted, mSocket, mQuitRenderThread, mDecoder,
                   newDecoder, mSessionType, mDataQueue, mDecoderMutex, wake, nDecoders, nEnqueued>>

\* PacketReceiver::onPacketReceived called with a TTML_TIMESTAMP or WEBVTT_TIMESTAMP packet
SockTimestamp ==
    /\ pc["sock"] = "idle" /\ mSocket
    /\ \E ty \in TimestampTypes : cur' = [cur EXCEPT !["sock"] = Packet(ty, "-", "sock")]
    /\ pc' = [pc EXCEPT !["sock"] = "dispatch"]
    /\ UNCHANGED <<callerVars, mLastActiveTime, mStarted, mSocket, mQuitRenderThread, mDecoder,
                   newDecoder, mSessionType, mDataQueue, mDecoderMutex, wake, nDecoders, nEnqueued>>

NextTimestamp ==
    \/ \E t \in {"api", "sock"} :
          \/ DispatchTransport(t) \/ DispatchTimestamp(t)
          \/ ResetChannelAsk(t) \/ ResetChannelAct(t)
          \/ SelDeactivate(t) \/ SelConstruct(t) \/ SelReset(t)
          \/ Notify(t)
    \/ ApiControl
    \/ ApiSendTimestamp
    \/ SockTimestamp

SpecTimestamp == InitDispatch /\ [][NextTimestamp]_vars

(***************************************************************************)
(* TextTrackImplementation: the session registry.  Every call runs under   *)
(* mSessionsMutex and is one step.  A registered session is kept as what   *)
(* the registry's calls read and set of it.                                *)
(***************************************************************************)

\* Bounds of the registry.
MaxSessions == 1

\* The RenderSession members the registry's calls read or set.
sessionVars == <<mStarted, mSocket, mQuitRenderThread, mDecoder, newDecoder, mSessionType,
                 mDataQueue, mDecoderMutex, pc, cur, wake, nDecoders, nEnqueued, mPreviewText,
                 mLastActiveTime>>

DisplayNames == {"", "wst-a", "wst-b"}
SessionIds == 1 .. MaxSessions + 1

\* std::make_unique<RenderSession>(mConfiguration, iDisplayName) after start()
NewSession(name) ==
    [displayName |-> name, started |-> TRUE, type |-> "NONE", preview |-> "",
     muted |-> FALSE, paused |-> FALSE, mCustomCcStyling |-> "none", ccStyling |-> "none"]

\* The calls that find the session and forward to one RenderSession method.
ForwardingOps ==
    {"CloseSession", "ResetSession", "PauseSession", "ResumeSession", "MuteSession",
     "UnMuteSession", "SendSessionData", "SendSessionTimestamp",
     "SetSessionTeletextSelection",
     "SetSessionDvbSubtitleSelection", "SetSessionWebVTTSelection", "SetSessionTTMLSelection",
     "SetSessionSCTESelection"}
SessionOps ==
    ForwardingOps \cup {"SetPreviewText", "SetSessionClosedCaptionsService",
                        "ApplyCustomClosedCaptionsStyleToSession"}

\* What the forwarded method changes of the session
Forwarded(sn, op) ==
    CASE op \in {"CloseSession", "MuteSession"} -> [sn EXCEPT !.muted = TRUE]
      [] op = "UnMuteSession" -> [sn EXCEPT !.muted = FALSE]
      [] op = "PauseSession" -> [sn EXCEPT !.paused = TRUE]
      [] op = "ResumeSession" -> [sn EXCEPT !.paused = FALSE]
      [] op = "SetSessionTeletextSelection" ->
            [sn EXCEPT !.type = "TTX", !.muted = FALSE, !.paused = FALSE, !.ccStyling = "none"]
      [] op = "SetSessionWebVTTSelection" ->
            [sn EXCEPT !.type = "WEBVTT", !.muted = FALSE, !.paused = FALSE, !.ccStyling = "none"]
      [] op = "SetSessionTTMLSelection" ->
            [sn EXCEPT !.type = "TTML", !.muted = FALSE, !.paused = FALSE, !.ccStyling = "none"]
      [] OTHER -> sn

\* A lookup that takes every session id for a registered one.
Found_Always(id) == TRUE

\* mSessions.find(id) != mSessions.end()
Found(id) == id \in DOMAIN mSessions

\* mSessions.emplace(id, SessionInfo{session})
Emplace(m, id, sn) == [i \in DOMAIN m \cup {id} |-> IF i = id THEN sn ELSE m[i]]

\* The session ids whose session has the display name: find_if over mSessions
Existing(name) == {i \in DOMAIN mSessions : mSessions[i].displayName = name}

\* What can happen between ++mSessionNumber and the emplace of OpenSession
OpenOutcomes == {"ok", "constructor throws", "start throws"}

\* OpenSession(iDisplayName, oSessionId)
OpenSession ==
    /\ \E name \in DisplayNames, outcome \in OpenOutcomes :
          IF name = ""
          THEN /\ ret' = [op |-> "OpenSession", id |-> 0, code |-> "ERROR_GENERAL"]
               /\ UNCHANGED <<mSessions, mSessionNumber>>
          ELSE IF Existing(name) # {}
          THEN /\ \E i \in Existing(name) :
                     /\ \A j \in Existing(name) : i <= j
                     /\ ret' = [op |-> "OpenSession", id |-> i, code |-> "ERROR_NONE"]
                     /\ mSessions' = [mSessions EXCEPT ![i].started = TRUE]
               /\ UNCHANGED mSessionNumber
          ELSE /\ mSessionNumber < MaxSessions
               /\ mSessionNumber' = mSessionNumber + 1
               /\ mSessions' = IF outcome = "ok"
                                THEN Emplace(mSessions, mSessionNumber + 1, NewSession(name))
                                ELSE mSessions
               /\ ret' = [op |-> "OpenSession", id |-> mSessionNumber + 1, code |-> "ERROR_NONE"]
    /\ UNCHANGED <<sessionVars, bp, now, configStyle, reg>>

\* CloseSession ... SetSessionSCTESelection: find the session, forward, report
ForwardingCall ==
    /\ \E op \in ForwardingOps, id \in SessionIds :
          /\ ret' = [op |-> op, id |-> id,
                     code |-> IF Found(id) THEN "ERROR_NONE" ELSE "ERROR_GENERAL"]
          /\ mSessions' = IF Found(id) THEN [mSessions EXCEPT ![id] = Forwarded(@, op)]
                           ELSE mSessions
    /\ UNCHANGED <<mSessionNumber, sessionVars, bp, now, configStyle, reg>>

\* The texts the model's caller passes
RegistryTexts == {"", "text"}

\* SetPreviewText(sessionId, text)
SetPreviewText ==
    /\ \E id \in SessionIds, text \in RegistryTexts :
          IF ~Found(id)
          THEN /\ ret' = [op |-> "SetPreviewText", id |-> id, code |-> "ERROR_GENERAL"]
               /\ UNCHANGED mSessions
          ELSE IF mSessions[id].type = "CC"
          THEN /\ ret' = [op |-> "SetPreviewText", id |-> id, code |-> "ERROR_NONE"]
               /\ mSessions' = [mSessions EXCEPT ![id].preview = text]
          ELSE /\ ret' = [op |-> "SetPreviewText", id |-> id, code |-> "ERROR_NOT_SUPPORTED"]
               /\ UNCHANGED mSessions
    /\ UNCHANGED <<mSessionNumber, sessionVars, bp, now, configStyle, reg>>

\* The closed-captions styles: those of the global settings and those a caller
\* gives one session as its custom styling.
GlobalStyles == {"g1", "g2"}
CustomStyles == {"c1"}

\* hasCustomCcStyling()
hasCustomCcStyling(sn) == sn.mCustomCcStyling # "none"

\* applyCcStyling(styling): the styling reaches the current instance of CC
ApplyCcStyling(sn, style) == IF sn.type = "CC" THEN [sn EXCEPT !.ccStyling = style] ELSE sn

\* setCustomCcStyling(styling): sets and applies the session-local override
SetCustomCcStyling(sn, style) == ApplyCcStyling([sn EXCEPT !.mCustomCcStyling = style], style)

\* selectCcService(type, serviceId): a new instance of CC, which has lost the
\* styling applied to the one before and is given the remembered override
SelectCcService(sn) ==
    [sn EXCEPT !.type = "CC", !.muted = FALSE, !.paused = FALSE,
               !.ccStyling = sn.mCustomCcStyling]

\* An ApplyClosedCaptionsStyle that does not ask hasCustomCcStyling().
ApplyClosedCaptionsStyle_Unguarded(sn, style) == ApplyCcStyling(sn, style)

\* ApplyClosedCaptionsStyle(session, style): if (!session.hasCustomCcStyling())
\*     session.applyCcStyling(style)
ApplyClosedCaptionsStyle(sn, style) ==
    IF ~hasCustomCcStyling(sn) THEN ApplyCcStyling(sn, style) ELSE sn

\* SetSessionClosedCaptionsService(iSessionId, service): parsed tells whether
\* the service string is one of SERVICEn, CCn, TEXTn; selectCcService, then
\* ApplyClosedCaptionsStyle(session, the stored style)
SetSessionClosedCaptionsService ==
    /\ \E id \in SessionIds, parsed \in BOOLEAN :
          IF Found(id) /\ parsed
          THEN /\ ret' = [op |-> "SetSessionClosedCaptionsService", id |-> id,
                          code |-> "ERROR_NONE"]
               /\ mSessions' = [mSessions EXCEPT
                      ![id] = ApplyClosedCaptionsStyle(SelectCcService(@), configStyle)]
          ELSE /\ ret' = [op |-> "SetSessionClosedCaptionsService", id |-> id,
                          code |-> "ERROR_GENERAL"]
               /\ UNCHANGED mSessions
    /\ UNCHANGED <<mSessionNumber, sessionVars, bp, now, configStyle, reg>>

\* ApplyCustomClosedCaptionsStyleToSession(sessionId, style)
ApplyCustomClosedCaptionsStyleToSession ==
    /\ \E id \in SessionIds, style \in CustomStyles :
          /\ ret' = [op |-> "ApplyCustomClosedCaptionsStyleToSession", id |-> id,
                     code |-> IF Found(id) THEN "ERROR_NONE" ELSE "ERROR_GENERAL"]
          /\ mSessions' = IF Found(id)
                           THEN [mSessions EXCEPT ![id] = SetCustomCcStyling(@, style)]
                           ELSE mSessions
    /\ UNCHANGED <<mSessionNumber, sessionVars, bp, now, configStyle, reg>>

\* SetClosedCaptionsStyle(style) and the Set<Field> calls: the style is stored,
\* then ApplyClosedCaptionsStyle(style) goes through every session
SetClosedCaptionsStyle ==
    /\ \E style \in GlobalStyles :
          /\ configStyle' = style
          /\ mSessions' = [i \in DOMAIN mSessions |-> ApplyClosedCaptionsStyle(mSessions[i], style)]
          /\ ret' = [op |-> "SetClosedCaptionsStyle", id |-> 0, code |-> "ERROR_NONE"]
    /\ UNCHANGED <<mSessionNumber, sessionVars, bp, now, reg>>

NextRegistry ==
    OpenSession \/ ForwardingCall \/ SetPreviewText \/ SetSessionClosedCaptionsService

SpecRegistry == Init /\ [][NextRegistry]_vars

\* The calls that set a closed-captions style, with those that open a session
\* and select its CC service.
NextStyle ==
    \/ OpenSession \/ SetSessionClosedCaptionsService
    \/ ApplyCustomClosedCaptionsStyleToSession \/ SetClosedCaptionsStyle

SpecStyle == Init /\ [][NextStyle]_vars

(***************************************************************************)
(* RenderSession::sendData: the display offset in the packet.  A uint32_t  *)
(* is held as its two 16-bit halves <<low, high>>, an int64_t as the four  *)
(* halves of its two's complement, so that no value leaves the range of    *)
(* the model's integers.                                                   *)
(***************************************************************************)
MaxOffset == 140

\* 2^16: one half of a uint32_t.
Half == 2^16

\* RenderSession::DataType
SendDataTypes == {"PES", "TTML", "CC", "WEBVTT"}

\* The displayOffsetMs values of the calls: multiples of 500 ms on both sides
\* of zero, reaching past 2^16 so that both halves of the low word are used.
Offsets == {500 * k : k \in -MaxOffset .. MaxOffset}

\* static_cast<uint32_t>(v) of an int64_t v: the two low halves of its two's
\* complement (\div rounds down and % is never negative, as two's complement
\* truncation does).
U32(v) == <<v % Half, (v \div Half) % Half>>

\* offsetMs & UINT32_MAX, passed to bp(uint32_t)
LowWord(offsetMs) == U32(offsetMs)

\* offsetMs >> 32 (arithmetic shift of an int64_t), passed to bp(uint32_t)
HighWord(offsetMs) == U32((offsetMs \div Half) \div Half)

\* The mutation of C19: the WEBVTT case does not flip the sign.
SentOffset_AsGiven(type, offsetMs) == offsetMs

\* The offset sendData encodes: WEBVTT executes offsetMs = -offsetMs first.
SentOffset(type, offsetMs) == IF type = "WEBVTT" THEN -offsetMs ELSE offsetMs

\* The words sendData appends to bp after the header, in order.
OffsetWords(type, offsetMs) ==
    CASE type = "PES"    -> <<U32(0)>>
      [] type = "TTML"   -> <<LowWord(SentOffset(type, offsetMs)),
                              HighWord(SentOffset(type, offsetMs))>>
      [] type = "WEBVTT" -> <<LowWord(SentOffset(type, offsetMs)),
                              HighWord(SentOffset(type, offsetMs))>>
      [] type = "CC"     -> <<U32(3), U32(0), U32(0)>>

\* The int64_t whose two's complement has the low word lo and the high word hi,
\* for the values whose high word is the sign extension of the low word; -1
\* with a FALSE flag for any other pair of words.
Recombine(lo, hi) ==
    IF hi = <<0, 0>> /\ lo[2] < Half \div 2
    THEN [ok |-> TRUE, value |-> lo[1] + Half * lo[2]]
    ELSE IF hi = <<Half - 1, Half - 1>> /\ lo[2] >= Half \div 2
    THEN [ok |-> TRUE, value |-> lo[1] + Half * (lo[2] - Half)]
    ELSE [ok |-> FALSE, value |-> -1]

\* sendData(type, data, offsetMs): the switch that fills bp.
SendDataBuild ==
    /\ ~bp.built
    /\ bp' = [bp EXCEPT !.words = OffsetWords(bp.type, bp.offsetMs), !.built = TRUE]
    /\ UNCHANGED <<sessionVars, mSessions, mSessionNumber, ret, now, configStyle, reg>>

\* A sendData call with any type and any display offset of the bounded set.
InitEncode ==
    /\ mStarted = TRUE
    /\ mSocket = TRUE
    /\ mQuitRenderThread = FALSE
    /\ mDecoder = NoDecoder
    /\ newDecoder = NoDecoder
    /\ mSessionType = "NONE"
    /\ mDataQueue = <<>>
    /\ mDecoderMutex = "none"
    /\ pc = [t \in Threads |-> IF t = "render" THEN "blocked" ELSE "idle"]
    /\ cur = [t \in Threads |-> NoPacket]
    /\ wake = FALSE
    /\ nDecoders = 0
    /\ nEnqueued = 0
    /\ mPreviewText = ""
    /\ InitRegistry
    /\ reg = NoLocks
    /\ now = 0
    /\ mLastActiveTime = 0
    /\ bp \in [type : SendDataTypes, offsetMs : Offsets, words : {<<>>}, built : {FALSE}]

NextEncode == SendDataBuild

SpecEncode == InitEncode /\ [][NextEncode]_vars

(***************************************************************************)
(* The last-activity time: the dispatch of every packet type while the     *)
(* steady clock advances.                                                  *)
(***************************************************************************)
MaxTime == 2

\* The steady clock advances by one tick.
Tick ==
    /\ now < MaxTime
    /\ now' = now + 1
    /\ UNCHANGED <<sessionVars, mSessions, mSessionNumber, ret, bp, configStyle, reg>>

NextTouch ==
    \/ SockAnyPacket \/ SockTimestamp \/ SockSetCcAttributes
    \/ Dispatch("sock") \/ DispatchSetCCAttributes("sock") \/ DispatchTimestamp("sock")
    \/ Notify("sock")
    \/ Tick

SpecTouch == InitDispatch /\ [][NextTouch]_vars

(***************************************************************************)
(* Properties                                                              *)
(***************************************************************************)

\* The positions of a thread inside doOnPacketReceived.
DispatchPcs == {"dispatch", "sel_construct", "sel_reset", "rc_act", "ra_drop"}

\* C1: through every sequence of selection packets at most one decoder
\* controller is activated at any time, and when the constructor of the next
\* decoder has run the previous decoder has already been deactivated.
C1_OneActiveDecoder ==
    /\ Cardinality({d \in {mDecoder, newDecoder} : d.activated}) <= 1
    /\ newDecoder # NoDecoder => ~mDecoder.activated

\* C1 witness: a selection has constructed the next decoder while the previous one
\* is still held by mDecoder.
C1_Witness == newDecoder # NoDecoder /\ mDecoder # NoDecoder

\* C2: a decoder never receives addData for a buffer that entered the ingress
\* queue before that decoder was constructed.
C2_NoStaleData == mDecoder.data.gen >= 0 => mDecoder.id <= mDecoder.data.gen

\* The buffers of completed sendData calls that still wait for their dispatch.
ApiDataPending ==
    {i \in DOMAIN mDataQueue : mDataQueue[i].src = "api"}
    \cup {i \in {0} : pc["render"] = "dispatch" /\ cur["render"].src = "api"}

\* C3: a control call of an external caller is never reordered relative to data:
\* when it takes effect, every buffer of an earlier sendData has been dispatched.
C3_ControlAfterData ==
    [][(pc["api"] = "dispatch" /\ pc'["api"] # "dispatch") => ApiDataPending = {}]_vars

\* C4: buffers are dispatched in the order in which they were enqueued: the queue
\* holds them in enqueue order, and whenever one is taken for dispatch every
\* buffer still queued was enqueued after it.
C4_Fifo ==
    /\ \A i, j \in DOMAIN mDataQueue : i < j => mDataQueue[i].seq < mDataQueue[j].seq
    /\ (pc["render"] \in DispatchPcs /\ cur["render"].seq > 0)
          => \A i \in DOMAIN mDataQueue : cur["render"].seq < mDataQueue[i].seq

\* C4 witness: the render thread dispatches a buffer while a later one is queued.
C4_Witness ==
    /\ pc["render"] = "dispatch" /\ cur["render"].seq > 0
    /\ mDataQueue # <<>>

\* C5: a data packet reaches a decoder's addData only if a decoder is active when
\* it is handled; with no decoder active addBuffer does not enqueue it, and its
\* dispatch changes neither the decoder slot, the session-type tag nor the queue.
C5_DataNeedsDecoder ==
    [][/\ \A t \in Threads :
            /\ (pc[t] = "ab_check" /\ pc'[t] # "ab_check" /\ mDecoder = NoDecoder)
                  => (pc'[t] = "idle" /\ mDataQueue' = mDataQueue)
            /\ (pc[t] = "dispatch" /\ cur[t].type \in DataTypes /\ pc'[t] # "dispatch"
                   /\ mDecoder = NoDecoder)
                  => (mDecoder' = NoDecoder /\ mSessionType' = mSessionType
                         /\ mDataQueue' = mDataQueue)
       /\ (mDecoder'.data # NoData /\ mDecoder'.data # mDecoder.data)
             => (mDecoder # NoDecoder /\ mDecoder.activated /\ mDecoder'.id = mDecoder.id)
      ]_vars

\* C5 witness: a data packet is about to be dispatched while no decoder is active.
C5_Witness ==
    \E t \in Threads : pc[t] = "dispatch" /\ cur[t].type \in DataTypes /\ mDecoder = NoDecoder

\* The data packet type that belongs to a session format.
DataOfFormat(fmt) ==
    CASE fmt = "TTML" -> "TTML_DATA"
      [] fmt = "WEBVTT" -> "WEBVTT_DATA"
      [] fmt = "CC" -> "CC_DATA"
      [] OTHER -> "PES_DATA"

\* C6: a data packet of format X sent while the active decoder's format is Y # X
\* is a no-op: the decoder receives no addData call for it.
C6_NoForeignData ==
    mDecoder.data # NoData => mDecoder.data.type = DataOfFormat(mDecoder.fmt)

\* The step in which thread t returns from the dispatch of a packet of type ty.
DispatchReturns(t, ty) ==
    /\ pc[t] \in DispatchPcs /\ cur[t].type = ty
    /\ pc'[t] \notin DispatchPcs

\* C7: the dispatch of a reset-all packet, in any session state, leaves the
\* ingress queue empty and no decoder active when it returns.
C7_ResetAllClears ==
    [][\A t \in Threads :
          DispatchReturns(t, "RESET_ALL") => (mDataQueue' = <<>> /\ mDecoder' = NoDecoder)]_vars

\* C8: after the dispatch of a reset-all packet the session type reads NONE.
C8_ResetAllRevertsType ==
    [][\A t \in Threads : DispatchReturns(t, "RESET_ALL") => mSessionType' = "NONE"]_vars

\* C9: the dispatch of a reset-channel packet drops the active decoder if and only
\* if wantsData answered true; otherwise, and with no decoder active, the decoder
\* slot is unchanged; the session-type tag and the queue are unchanged in any case.
C9_ResetChannel ==
    [][\A t \in Threads :
          /\ (pc[t] = "dispatch" /\ cur[t].type = "RESET_CHANNEL" /\ pc'[t] # "dispatch")
                => /\ mDecoder' = mDecoder /\ mSessionType' = mSessionType
                   /\ mDataQueue' = mDataQueue
                   /\ mDecoder = NoDecoder <=> pc'[t] \notin DispatchPcs
          /\ (pc[t] = "rc_act" /\ pc'[t] # "rc_act")
                => /\ mDecoder # NoDecoder
                   /\ cur[t].sub = "yes" => mDecoder' = NoDecoder
                   /\ cur[t].sub # "yes" => mDecoder' = mDecoder
                   /\ mSessionType' = mSessionType /\ mDataQueue' = mDataQueue]_vars

\* C9 witness: wantsData has answered false to a reset-channel packet while a
\* decoder is active and a buffer is queued.
C9_Witness ==
    \E t \in Threads : pc[t] = "rc_act" /\ cur[t].sub = "no" /\ mDataQueue # <<>>

\* The format a selection packet selects (section 4.2 of the design), "NONE" for
\* a SUBTITLE_SELECTION whose subtitles type is none of DVB, SCTE, CC, TELETEXT.
FormatOfSelection(type, sub) ==
    IF type = "TTML_SELECTION" THEN "TTML"
    ELSE IF type = "WEBVTT_SELECTION" THEN "WEBVTT"
    ELSE IF type = "TELETEXT_SELECTION" \/ sub = "TELETEXT" THEN "TTX"
    ELSE IF sub \in {"DVB", "SCTE", "CC"} THEN sub
    ELSE "NONE"

\* What C10 says of the state a selection dispatch leaves: a newly constructed
\* decoder of format fmt, the tag equal to it, no mute or pause state.
FreshDecoderOf(fmt) ==
    /\ mDecoder' # NoDecoder /\ mDecoder'.activated
    /\ mDecoder'.id > mDecoder.id /\ mDecoder'.id = nDecoders
    /\ mDecoder'.fmt = fmt /\ mSessionType' = fmt
    /\ mDecoder'.mute = "none" /\ mDecoder'.pause = "none" /\ mDecoder'.data = NoData

\* C10 as claimed: every selection packet, in every session state, leaves a newly
\* constructed decoder of the selected format and the tag equal to that format.
C10_SelectionAlwaysWins ==
    [][\A t \in Threads :
          (pc[t] = "sel_reset" /\ pc'[t] # "sel_reset")
             => /\ FormatOfSelection(cur[t].type, cur[t].sub) # "NONE"
                /\ FreshDecoderOf(FormatOfSelection(cur[t].type, cur[t].sub))]_vars

\* C10 amended: a selection packet that names a format takes effect in every
\* session state as claimed; a SUBTITLE_SELECTION with any other subtitles type
\* leaves no decoder active and the tag as it was.
C10_SelectionWins ==
    [][\A t \in Threads :
          (pc[t] = "sel_reset" /\ pc'[t] # "sel_reset")
             => IF FormatOfSelection(cur[t].type, cur[t].sub) # "NONE"
                THEN FreshDecoderOf(FormatOfSelection(cur[t].type, cur[t].sub))
                ELSE mDecoder' = NoDecoder /\ mSessionType' = mSessionType]_vars

\* C10 witness: a selection is replacing a decoder that was muted and paused.
C10_Witness ==
    \E t \in Threads :
        /\ pc[t] = "sel_reset" /\ newDecoder # NoDecoder
        /\ mDecoder.mute = "muted" /\ mDecoder.pause = "paused"

\* The step in which thread t returns from the dispatch of a packet whose type
\* is in the set tys, entered in one step.
Dispatches(t, tys) == pc[t] = "dispatch" /\ cur[t].type \in tys /\ pc'[t] # "dispatch"

\* C11: mute, unmute, pause and resume dispatched while no decoder is active change
\* neither the decoder slot, the session-type tag nor the queue, and they are not
\* replayed: a decoder's mute or pause state changes only by the dispatch of such a
\* packet to that very decoder, so a decoder constructed later gets none of them.
C11_TransportNoOp ==
    [][/\ \A t \in Threads :
            (Dispatches(t, TransportTypes) /\ mDecoder = NoDecoder)
               => (mDecoder' = NoDecoder /\ mSessionType' = mSessionType
                      /\ mDataQueue' = mDataQueue)
       /\ (mDecoder'.mute # "none" /\ (mDecoder'.mute # mDecoder.mute \/ mDecoder'.id # mDecoder.id))
             => /\ mDecoder # NoDecoder /\ mDecoder'.id = mDecoder.id
                /\ \E t \in Threads : Dispatches(t, {"MUTE", "UNMUTE"})
       /\ (mDecoder'.pause # "none" /\ (mDecoder'.pause # mDecoder.pause \/ mDecoder'.id # mDecoder.id))
             => /\ mDecoder # NoDecoder /\ mDecoder'.id = mDecoder.id
                /\ \E t \in Threads : Dispatches(t, {"PAUSE", "RESUME"})]_vars

\* C11 witness: a transport packet is about to be dispatched with no decoder
\* active, after an earlier decoder was dropped and with a selection still to come.
C11_Witness ==
    /\ \E t \in Threads : pc[t] = "dispatch" /\ cur[t].type \in TransportTypes
    /\ mDecoder = NoDecoder /\ nDecoders > 0 /\ nDecoders < MaxDecoders

C13_StopTerminates ==
    (pc["api"] = "stop_socket")
        ~> (pc["api"] = "idle" /\ pc["render"] = "off" /\ ~mStarted /\ mQuitRenderThread)

\* C13 witness: stop() is about to set the shutdown flag while the render thread
\* sleeps in its inner timed wait with a buffer queued.
C13_Witness ==
    pc["api"] = "stop_quit" /\ pc["render"] = "timed_wait" /\ mDataQueue # <<>>

\* C14: when stop() has returned, and when a start() that follows it is about to
\* create the render thread, the ingress queue is empty, no decoder is active, no
\* thread holds a buffer and no render thread runs: nothing enqueued before the
\* stop() is left to be dispatched after the restart.
C14_RestartFresh ==
    (pc["api"] = "start_thread" \/ (pc["api"] = "idle" /\ ~mStarted))
        => /\ mDataQueue = <<>> /\ mDecoder = NoDecoder /\ newDecoder = NoDecoder
           /\ \A t \in Threads : cur[t] = NoPacket
           /\ pc["render"] = "off" /\ pc["sock"] = "idle"

\* C14 witness: a start() after a stop() of a session that had a decoder and
\* queued buffers.
C14_Witness == pc["api"] = "start_thread" /\ nEnqueued > 0 /\ nDecoders > 0

\* C15: when start() throws because the socket source cannot be created, the
\* session is not left started (a later start() tries again) and no render thread
\* runs.
C15_FailedStartNotStarted ==
    [][(pc["api"] = "start_throw" /\ pc'["api"] = "idle")
          => (~mStarted' /\ pc'["render"] = "off")]_vars

\* C16: OpenSession returns success only if the session id it outputs is
\* registered with a started session.
C16_OpenSessionReports ==
    (ret.op = "OpenSession" /\ ret.code = "ERROR_NONE")
        => (ret.id \in DOMAIN mSessions /\ mSessions[ret.id].started)

C18_CloseDetaches ==
    [][(pc["api"] = "dispatch" /\ cur["api"].sub = "close" /\ pc'["api"] # "dispatch")
          => /\ mDecoder' = NoDecoder
             /\ mStarted' = mStarted
             /\ pc["render"] # "off" => pc'["render"] # "off"]_vars

\* C19: sendData encodes the display offset as two 32-bit words, the low word
\* first, whose two's-complement recombination is offsetMs for TTML data and
\* -offsetMs for WEBVTT data.
C19_OffsetEncoding ==
    (bp.built /\ bp.type \in {"TTML", "WEBVTT"})
        => /\ Len(bp.words) = 2
           /\ Recombine(bp.words[1], bp.words[2]).ok
           /\ Recombine(bp.words[1], bp.words[2]).value
                 = (IF bp.type = "TTML" THEN bp.offsetMs ELSE -bp.offsetMs)

\* C19 witness: a WEBVTT call with the positive offset 3000 has been encoded,
\* as the sign-extended words of a negative number.
C19_Witness ==
    /\ bp.built /\ bp.type = "WEBVTT" /\ bp.offsetMs = 3000
    /\ bp.words[2] = <<Half - 1, Half - 1>>

\* C20: a SET_CC_ATTRIBUTES packet reaches the decoder only if a decoder is
\* active and the session type is CC; and once the handling of such packets is
\* over, a decoder to which attributes were applied while a non-empty preview
\* text is stored has been asked to render the preview again since.
C20_AttributesThenPreview ==
    /\ [][(mDecoder' # NoDecoder /\ mDecoder'.cc = "attrs" /\ mDecoder' # mDecoder)
             => (mDecoder # NoDecoder /\ mSessionType = "CC")]_vars
    /\ []((/\ \A t \in Threads : cur[t].type # "SET_CC_ATTRIBUTES"
           /\ pc["api"] \notin {"cc_notify", "cc_refresh"}
           /\ mPreviewText # ""
           /\ mDecoder # NoDecoder)
             => mDecoder.cc # "attrs")

\* C21: a TTML_TIMESTAMP packet reaches the decoder's processTimestamp only
\* if the active decoder's format is TTML, a WEBVTT_TIMESTAMP packet only if it is
\* WEBVTT; with another format or no decoder the dispatch calls no decoder method.
C21_TimestampNeedsFormat ==
    [][\A t \in Threads :
          /\ (Dispatches(t, {"TTML_TIMESTAMP"}) /\ mDecoder.fmt # "TTML")
                => mDecoder' = mDecoder
          /\ (Dispatches(t, {"WEBVTT_TIMESTAMP"}) /\ mDecoder.fmt # "WEBVTT")
                => mDecoder' = mDecoder]_vars

\* C22: the dispatch of a packet of none of the handled types (the default
\* branch, INVALID included) leaves the decoder slot with every call the decoder
\* has received, the session-type tag, the ingress queue and the preview text as
\* they were.
C22_InvalidChangesNothing ==
    [][\A t \in Threads :
          Dispatches(t, {"INVALID"})
             => /\ mDecoder' = mDecoder /\ newDecoder' = newDecoder
                /\ mSessionType' = mSessionType
                /\ mDataQueue' = mDataQueue
                /\ mPreviewText' = mPreviewText]_vars

\* C22 witness: an INVALID packet is about to be dispatched while a decoder that
\* has received data is active and a buffer waits in the queue.
C22_Witness ==
    /\ \E t \in Threads : pc[t] = "dispatch" /\ cur[t].type = "INVALID" /\ mDecoderMutex = "none"
    /\ mDecoder # NoDecoder /\ mDecoder.data # NoData
    /\ mDataQueue # <<>>

\* C23: every dispatch, of any packet type and with or without a decoder, sets
\* the last-activity time to the current time; the last-activity time never
\* decreases and is never later than the clock.
C23_DispatchTouchesTime ==
    /\ [][(\E t \in Threads : pc[t] = "dispatch" /\ pc'[t] # "dispatch")
             => mLastActiveTime' = now]_vars
    /\ [][mLastActiveTime' >= mLastActiveTime]_vars
    /\ [](mLastActiveTime <= now)

\* C23 witness: a packet was dispatched after the clock had advanced, with no
\* decoder active, and the clock has advanced again since.
C23_Witness ==
    /\ mLastActiveTime > 0 /\ mLastActiveTime < now
    /\ mDecoder = NoDecoder /\ nDecoders = 0

C25_QueueKeptWhileActive ==
    [][/\ (Len(mDataQueue') < Len(mDataQueue))
             => \/ pc["render"] = "pd_pop" /\ pc'["render"] = "dispatch"
                \/ \E t \in Threads : pc[t] = "dispatch" /\ cur[t].type = "RESET_ALL"
                \/ pc["api"] = "stop_join"
                \/ pc["render"] = "clear"
       /\ (pc["render"] = "clear" /\ pc'["render"] # "clear" /\ mDecoder # NoDecoder)
             => \A k \in DOMAIN mDataQueue : mDataQueue[k].gen # mDecoder.id]_vars

\* C26: the outer wait misses no notification: whenever the render thread runs, a
\* decoder is active and a buffer is in the ingress queue, the thread comes to take buffers from
\* the queue (or the queue is emptied by a reset-all or by stop()), with no
\* further call of a producer needed.
C26_NoLostWakeup ==
    (pc["render"] # "off" /\ isRenderingActive /\ isDataQueued)
        ~> (pc["render"] = "pd_pop" \/ ~isDataQueued)

\* C27: a pass of the render thread in which the decoder reports a wait time of
\* zero, with the decoder still active and no shutdown requested, is followed at
\* once by the next pass: the thread goes back to the head of its inner loop and
\* neither leaves that loop nor waits for data.
C27_ZeroWaitLoopsAgain ==
    [][(/\ pc["render"] = "pd_process"
        /\ pc'["render"] \notin {"pd_process", "timed_wait"}
        /\ isRenderingActive /\ ~mQuitRenderThread)
          => pc'["render"] = "inner"]_vars

\* C28: the sleep after a pass with a nonzero wait time ends when a notification
\* of new data or of a control packet reaches the sleeping thread, not only when
\* the duration elapses or shutdown is requested.
C28_InnerSleepEndsOnData ==
    [][(pc["render"] = "timed_wait" /\ wake /\ ~wake')
          => pc'["render"] = "inner"]_vars

\* C29: between the calls of start() and stop() the session has a render thread
\* exactly when it is started (mStarted), whatever calls came before.
C29_ThreadIffStarted ==
    pc["api"] = "idle" => (mStarted <=> pc["render"] # "off")

\* C30: on a selection the previous decoder object is destroyed before the next
\* one is constructed: the session never holds two decoder controller objects.
C30_OneDecoderObject == ~(mDecoder # NoDecoder /\ newDecoder # NoDecoder)

(***************************************************************************)
(* The locks of the registry: what each call locks, in the order of its    *)
(* statements, around the steps of the session it calls.                   *)
(***************************************************************************)

\* Register(INotification*) with its locks taken in the opposite order.
LockScript_Reversed(op) ==
    IF op = "Register"
    THEN << <<"lock", "mNotificationMutex">>, <<"lock", "mConfigMutex">>,
            <<"unlock", "mConfigMutex">>, <<"unlock", "mNotificationMutex">> >>
    ELSE IF op = "SetClosedCaptionsStyle"
    THEN << <<"lock", "mSessionsMutex">>, <<"lock", "mConfigMutex">>,
            <<"lock", "mNotificationMutex">>, <<"unlock", "mNotificationMutex">>,
            <<"unlock", "mConfigMutex">>, <<"unlock", "mSessionsMutex">> >>
    ELSE IF op = "SetPreviewText"
    THEN << <<"lock", "mSessionsMutex">>, <<"preview", "-">>, <<"unlock", "mSessionsMutex">> >>
    ELSE IF op = "SessionCall"
    THEN << <<"lock", "mSessionsMutex">>, <<"call", "-">>, <<"unlock", "mSessionsMutex">> >>
    ELSE << <<"lock", "mConfigMutex">>, <<"unlock", "mConfigMutex">>,
            <<"lock", "mSessionsMutex">>, <<"stop", "-">>, <<"unlock", "mSessionsMutex">> >>

\* The locks of a call and what it does under them.  Register: mConfigMutex, then
\* mNotificationMutex.  SetClosedCaptionsStyle and the Set<Field> calls:
\* mSessionsMutex, mConfigMutex and, in the Raise... calls of
\* CheckWhetherClosedCaptionsStyleChanged, mNotificationMutex.  SetPreviewText:
\* mSessionsMutex around setTextForClosedCaptionPreview.  SessionCall, any call
\* that forwards to a session: mSessionsMutex around the session's method.  The
\* destructor: mConfigMutex, released, then mSessionsMutex around stop().
LockScript(op) ==
    IF op = "Register"
    THEN << <<"lock", "mConfigMutex">>, <<"lock", "mNotificationMutex">>,
            <<"unlock", "mNotificationMutex">>, <<"unlock", "mConfigMutex">> >>
    ELSE IF op = "SetClosedCaptionsStyle"
    THEN << <<"lock", "mSessionsMutex">>, <<"lock", "mConfigMutex">>,
            <<"lock", "mNotificationMutex">>, <<"unlock", "mNotificationMutex">>,
            <<"unlock", "mConfigMutex">>, <<"unlock", "mSessionsMutex">> >>
    ELSE IF op = "SetPreviewText"
    THEN << <<"lock", "mSessionsMutex">>, <<"preview", "-">>, <<"unlock", "mSessionsMutex">> >>
    ELSE IF op = "SessionCall"
    THEN << <<"lock", "mSessionsMutex">>, <<"call", "-">>, <<"unlock", "mSessionsMutex">> >>
    ELSE << <<"lock", "mConfigMutex">>, <<"unlock", "mConfigMutex">>,
            <<"lock", "mSessionsMutex">>, <<"stop", "-">>, <<"unlock", "mSessionsMutex">> >>

\* The calls each caller makes: "api" those that go into the session, and the
\* destructor; "reg" those of the style interface and SetPreviewText.
CallerOps(c) ==
    IF c = "api" THEN {"SessionCall", "~TextTrackImplementation"}
    ELSE {"Register", "SetClosedCaptionsStyle", "SetPreviewText"}

\* The statement caller c is at: a lock, an unlock, or the call of the session.
Cmd(c) ==
    IF reg.at[c].op \in {"none", "gone"} THEN <<"none", "-">>
    ELSE LockScript(reg.at[c].op)[reg.at[c].i]

\* The position of caller c after the statement it is at; the registry is gone
\* after its destructor.
Advance(c) ==
    IF reg.at[c].i < Len(LockScript(reg.at[c].op))
    THEN [reg.at[c] EXCEPT !.i = @ + 1]
    ELSE IF reg.at[c].op = "~TextTrackImplementation"
    THEN [op |-> "gone", i |-> 0] ELSE NoCall

\* A caller enters a call of the registry
CallerBegin(c) ==
    /\ reg.at[c] = NoCall
    /\ reg.at["api"].op # "gone"
    /\ \E op \in CallerOps(c) : reg' = [reg EXCEPT !.at[c] = [op |-> op, i |-> 1]]
    /\ UNCHANGED <<sessionVars, mSessions, mSessionNumber, ret, bp, now, configStyle>>

\* std::unique_lock lock{m}: the caller gets the mutex when it is free
CallerLock(c) ==
    /\ Cmd(c)[1] = "lock"
    /\ reg.owner[Cmd(c)[2]] = "none"
    /\ reg' = [reg EXCEPT !.owner[Cmd(c)[2]] = c, !.at[c] = Advance(c)]
    /\ UNCHANGED <<sessionVars, mSessions, mSessionNumber, ret, bp, now, configStyle>>

\* The end of the scope of a std::unique_lock
CallerUnlock(c) ==
    /\ Cmd(c)[1] = "unlock"
    /\ reg' = [reg EXCEPT !.owner[Cmd(c)[2]] = "none", !.at[c] = Advance(c)]
    /\ UNCHANGED <<sessionVars, mSessions, mSessionNumber, ret, bp, now, configStyle>>

\* The session's method called under mSessionsMutex has returned
CallDone ==
    /\ Cmd("api")[1] = "call"
    /\ pc["api"] = "idle"
    /\ reg' = [reg EXCEPT !.at["api"] = Advance("api")]
    /\ UNCHANGED <<sessionVars, mSessions, mSessionNumber, ret, bp, now, configStyle>>

\* The destructor's session.second.session->stop() has returned
StopDone ==
    /\ Cmd("api")[1] = "stop"
    /\ pc["api"] = "idle" /\ ~mStarted
    /\ reg' = [reg EXCEPT !.at["api"] = Advance("api")]
    /\ UNCHANGED <<sessionVars, mSessions, mSessionNumber, ret, bp, now, configStyle>>

\* SetPreviewText of the second caller: if getSessionType() is CC, touchTime() and
\* setTextForClosedCaptionPreview(text), which locks mDecoderMutex
PreviewCall ==
    /\ Cmd("reg")[1] = "preview"
    /\ IF mSessionType = "CC"
       THEN /\ mDecoderMutex = "none"
            /\ \E text \in PreviewTexts : mPreviewText' = text
            /\ mDecoder' = SetTextForPreview(mDecoder, mSessionType)
            /\ mLastActiveTime' = TouchTime
       ELSE UNCHANGED <<mPreviewText, mDecoder, mLastActiveTime>>
    /\ reg' = [reg EXCEPT !.at["reg"] = Advance("reg")]
    /\ UNCHANGED <<mStarted, mSocket, mQuitRenderThread, newDecoder, mSessionType, mDataQueue,
                   mDecoderMutex, pc, cur, wake, nDecoders, nEnqueued,
                   mSessions, mSessionNumber, ret, bp, now, configStyle>>

\* The session's methods that calls of the registry enter under mSessionsMutex:
\* start() (OpenSession), sendData (SendSessionData) and the selections.
SessionCalls ==
    /\ Cmd("api")[1] = "call"
    /\ \/ ApiStart
       \/ ApiSendData
       \/ ApiControl /\ cur'["api"].type \in SelectionTypes

\* stop(), entered by the destructor under mSessionsMutex
DestructorStops == Cmd("api")[1] = "stop" /\ ApiStop

\* Two callers of the registry, the session's render thread, and the steps of the
\* session's methods the first caller has entered.
NextLocks ==
    \/ \E c \in Callers : CallerBegin(c) \/ CallerLock(c) \/ CallerUnlock(c)
    \/ CallDone \/ StopDone \/ PreviewCall
    \/ SessionCalls \/ DestructorStops
    \/ DispatchData("render")
    \/ SelDeactivate("api") \/ SelConstruct("api") \/ SelReset("api")
    \/ AddBufferCheck("api") \/ AddBufferPush("api") \/ Notify("api")
    \/ StartThread \/ StopSocket \/ StopQuit \/ StopNotify \/ StopJoin \/ StopDecoder
    \/ Render

SpecLocks == Init /\ [][NextLocks]_vars

(***************************************************************************)
(* The locks of a session                                                  *)
(***************************************************************************)

\* processLoop: UniqueLock lock(mRenderMutex), held by the render thread from
\* its first statement to its return, and released only inside wait and wait_for.
HoldsRenderMutex(t) ==
    t = "render" /\ pc["render"] \notin {"off", "blocked", "timed_wait"}

\* The positions whose next statement is LockGuard lock{mDecoderMutex}:
\* doOnPacketReceived, isRenderingActive (addBuffer, the predicate of the outer
\* wait, the condition of the inner loop), the last block of processData, of
\* stop() and setTextForClosedCaptionPreview.
AcquiresDecoderMutex(t) ==
    \/ pc[t] \in {"dispatch", "ab_check", "pd_process", "stop_decoder", "cc_refresh"}
    \/ pc[t] \in {"wait_pred", "inner"} /\ ~mQuitRenderThread

\* Thread t is blocked in the constructor of a LockGuard on mDecoderMutex.
WaitsForDecoderMutex(t) ==
    AcquiresDecoderMutex(t) /\ mDecoderMutex \notin {"none", t}

\* C31: the locks of a session are never nested: no thread waits for
\* mDecoderMutex while it holds mRenderMutex.
C31_LocksNeverNested ==
    \A t \in Threads : ~(HoldsRenderMutex(t) /\ WaitsForDecoderMutex(t))

\* The steps of thread t that run inside a block under LockGuard lock{mDataMutex}:
\* the push of addBuffer, isDataQueued, the pop of processData, the clear of
\* processLoop, of processResetAll and of stop().
DataMutexStep(t) ==
    /\ pc'[t] # pc[t]
    /\ \/ pc[t] \in {"ab_push", "wait_pred2", "pd_pop", "clear", "stop_join"}
       \/ pc[t] = "dispatch" /\ cur[t].type = "RESET_ALL"

\* C32: no decoder method runs inside a block that holds mDataMutex: a step made
\* under the data lock leaves the decoder objects as they are, so the lock is
\* free again whenever a decoder is at work.
C32_NoDecoderCallUnderDataLock ==
    [][(\E t \in Threads : DataMutexStep(t)) => UNCHANGED <<mDecoder, newDecoder>>]_vars

\* C32 witness: a producer is about to enqueue a buffer while another thread is
\* inside a decoder call (it holds the decoder lock).
C32_Witness ==
    \E t, u \in Threads : t # u /\ mDecoderMutex = t /\ pc[u] = "ab_push"

\* The positions inside a block under LockGuard lock{mDecoderMutex} that the
\* model leaves in more than one step: processDecoderSelection, processResetChannel
\* and processResetAll, called by doOnPacketReceived.
InDecoderSection(t) == pc[t] \in {"sel_construct", "sel_reset", "rc_act", "ra_drop"}

LockRank(l) ==
    IF l = "mSessionsMutex" THEN 1 ELSE IF l = "mConfigMutex" THEN 2 ELSE 3

\* The thread that holds what thread or caller t waits for, or "none": the owner
\* of the mutex a caller is about to lock, the owner of mDecoderMutex, and for
\* stop() the render thread while it holds mRenderMutex or has not returned, and
\* the socket source's thread while it is in a callback.
Blocker(t) ==
    IF t \in Callers /\ Cmd(t)[1] = "lock" /\ reg.owner[Cmd(t)[2]] \notin {"none", t}
    THEN reg.owner[Cmd(t)[2]]
    ELSE IF t = "reg" /\ Cmd(t)[1] = "preview" /\ mSessionType = "CC" /\ mDecoderMutex # "none"
    THEN mDecoderMutex
    ELSE IF t \in Threads /\ WaitsForDecoderMutex(t) THEN mDecoderMutex
    ELSE IF t = "api" /\ pc["api"] = "stop_quit" /\ HoldsRenderMutex("render") THEN "render"
    ELSE IF t = "api" /\ pc["api"] = "stop_join" /\ pc["render"] # "off" THEN "render"
    ELSE IF t = "api" /\ pc["api"] = "stop_socket" /\ pc["sock"] # "idle" THEN "sock"
    ELSE "none"

\* Where the chain of waits that starts at t is after n steps
RECURSIVE WaitChain(_, _)
WaitChain(t, n) ==
    IF n = 0 \/ t = "none" THEN t ELSE WaitChain(Blocker(t), n - 1)

SockSelection == SockAnyPacket /\ cur'["sock"].type \in SelectionTypes

NextTag ==
    \/ SockSelection
    \/ SelDeactivate("sock") \/ SelConstruct("sock") \/ SelReset("sock") \/ Notify("sock")
    \/ ApiSendTimestamp \/ DispatchTimestamp("api") \/ Notify("api")

SpecTag == InitDispatch /\ [][NextTag]_vars

\* C35: mSessionType is read only under mDecoderMutex: sendTimestamp does not read
\* the tag while another thread, inside a selection, holds the decoder lock.
C35_TagReadUnderLock ==
    [][(pc["api"] = "idle" /\ pc'["api"] = "dispatch" /\ cur'["api"].type \in TimestampTypes)
          => mDecoderMutex = "none"]_vars

(***************************************************************************)
(* sendData and SendSessionData with their results, on a started session   *)
(* whose decoder the caller selects and resets.                            *)
(***************************************************************************)

\* The DataType values of the calls: the four of the enumeration and any other.
CalledDataTypes == SendDataTypes \cup {"UNKNOWN"}

\* fTypeConvert of SendSessionData: the four types map to themselves, and the
\* statement after the switch returns CC.
fTypeConvert(type) == IF type \in SendDataTypes THEN type ELSE "CC"

\* A sendData that reports whether the buffer entered the queue.
SendDataResult_Queued(type, queued) ==
    IF type \in SendDataTypes /\ queued THEN "true" ELSE "false"

\* What sendData returns: false in the default branch of its switch, true after
\* addBuffer, which returns nothing.
SendDataResult(type, queued) == IF type \in SendDataTypes THEN "true" ELSE "false"

\* sendData(type, ...) entered by `from`: the switch on type; its default branch
\* returns false, the others go on to addBuffer(bp).  `before` keeps the number
\* of buffers that had entered the queue when the call began.
SendDataEnter(type, from) ==
    /\ pc["api"] = "idle" /\ mStarted
    /\ BufferAllowed
    /\ bp' = [NoBuildPacket EXCEPT !.type = type]
    /\ IF type \in SendDataTypes
       THEN /\ cur' = [cur EXCEPT !["api"] = Packet(SendDataPacketType(type), "-", "api")]
            /\ pc' = [pc EXCEPT !["api"] = "ab_check"]
            /\ ret' = [op |-> "sendData", id |-> 0, code |-> "running", from |-> from,
                       before |-> nEnqueued]
       ELSE /\ ret' = [op |-> "sendData", id |-> 0, code |-> SendDataResult(type, FALSE),
                       from |-> from, before |-> nEnqueued]
            /\ UNCHANGED <<pc, cur>>
    /\ UNCHANGED <<mStarted, mSocket, mQuitRenderThread, mDecoder, newDecoder, mSessionType,
                   mDataQueue, mDecoderMutex, wake, nDecoders, nEnqueued, mPreviewText,
                   mLastActiveTime, mSessions, mSessionNumber, now, configStyle, reg>>

\* sendData called by a user of the session with any value of DataType
CallerSendData == \E type \in CalledDataTypes : SendDataEnter(type, "caller")

\* SendSessionData on a registered session: sendData(fTypeConvert(type), ...)
ApiSendSessionData ==
    \E type \in CalledDataTypes : SendDataEnter(fTypeConvert(type), "SendSessionData")

\* sendData: return true, after addBuffer has returned
SendDataReturn ==
    /\ ret.op = "sendData" /\ ret.code = "running"
    /\ pc["api"] = "idle"
    /\ ret' = [ret EXCEPT !.code = SendDataResult(bp.type, nEnqueued > ret.before)]
    /\ UNCHANGED <<sessionVars, mSessions, mSessionNumber, bp, now, configStyle, reg>>

\* SendSessionData: return Core::ERROR_NONE, whatever sendData returned
SendSessionDataReturn ==
    /\ ret.op = "sendData" /\ ret.code \in {"true", "false"}
    /\ ret.from = "SendSessionData"
    /\ ret' = [op |-> "SendSessionData", id |-> 1, code |-> "ERROR_NONE"]
    /\ UNCHANGED <<sessionVars, mSessions, mSessionNumber, bp, now, configStyle, reg>>

\* No call of the session is in progress
NoSendData == ret.op = "sendData" => ret.code # "running"

\* The caller's next call of the session, when the last has returned
SendDataCalls == NoSendData /\ (CallerSendData \/ ApiSendSessionData \/ ApiControl)

NextSendData ==
    \/ SendDataCalls
    \/ AddBufferCheck("api") \/ AddBufferPush("api") \/ Notify("api")
    \/ SendDataReturn \/ SendSessionDataReturn
    \/ DispatchTransport("api") \/ ResetChannelAsk("api") \/ ResetChannelAct("api")
    \/ SelDeactivate("api") \/ SelConstruct("api") \/ SelReset("api")

SpecSendData == InitDispatch /\ [][NextSendData]_vars

\* C36: sendData returns true for PES, TTML, CC and WEBVTT whether or not the
\* buffer entered the queue, and false for any other type, in which case nothing
\* is enqueued; SendSessionData on a registered session reports success.
C36_SendDataResult ==
    /\ []((ret.op = "sendData" /\ ret.code # "running")
             => (ret.code = "true" <=> bp.type \in SendDataTypes))
    /\ [][(ret'.op = "sendData" /\ ret'.code = "false" /\ ret' # ret)
             => UNCHANGED <<mDataQueue, nEnqueued, pc, cur>>]_vars
    /\ [](ret.op = "SendSessionData" => ret.code = "ERROR_NONE")

\* C36 witness: sendData has returned true for a buffer that addBuffer discarded
\* because no decoder was active.
C36_Witness ==
    /\ ret.op = "sendData" /\ ret.code = "true"
    /\ nEnqueued = ret.before /\ mDecoder = NoDecoder

(***************************************************************************)
(* Configure, with the session it creates for the standard display, among  *)
(* OpenSession and CloseSession.                                           *)
(***************************************************************************)

\* The sessions Configure and OpenSession may create together.
MaxOpened == 2

\* The standard socket of the configuration
SocketNames == {"", "sock"}

\* What can happen in Configure: the persistent store opens or not, and start()
\* of the session of the standard display returns or throws.
ConfigureOutcomes == {"ok", "no store", "start throws"}

\* Configure(shell): ERROR_GENERAL without the persistent store; else, with a
\* standard display and a standard socket, a RenderSession for them is started
\* and emplaced under ++mSessionNumber.
Configure ==
    /\ \E display \in DisplayNames, socket \in SocketNames, outcome \in ConfigureOutcomes :
          IF outcome = "no store"
          THEN /\ ret' = [op |-> "Configure", id |-> 0, code |-> "ERROR_GENERAL"]
               /\ UNCHANGED <<mSessions, mSessionNumber>>
          ELSE IF display = "" \/ socket = ""
          THEN /\ ret' = [op |-> "Configure", id |-> 0, code |-> "ERROR_NONE"]
               /\ UNCHANGED <<mSessions, mSessionNumber>>
          ELSE IF outcome = "start throws"
          THEN /\ ret' = [op |-> "Configure", id |-> 0, code |-> "exception"]
               /\ UNCHANGED <<mSessions, mSessionNumber>>
          ELSE /\ mSessionNumber < MaxOpened
               /\ mSessionNumber' = mSessionNumber + 1
               /\ mSessions' = Emplace(mSessions, mSessionNumber + 1, NewSession(display))
               /\ ret' = [op |-> "Configure", id |-> mSessionNumber + 1, code |-> "ERROR_NONE"]
    /\ UNCHANGED <<sessionVars, bp, now, configStyle, reg>>

\* CloseSession(iSessionId)
CloseSession == ForwardingCall /\ ret'.op = "CloseSession"

NextNames == Configure \/ OpenSession \/ CloseSession

SpecNames == Init /\ [][NextNames]_vars

UnimplementedSelections == {"SetSessionDvbSubtitleSelection", "SetSessionSCTESelection"}

\* PacketReceiver::onPacketReceived of the session called with a selection packet
\* by select*Service.
ApiSelection == ApiControl /\ cur'["api"].type \in SelectionTypes

SelectUnimplemented_Dispatched(op) ==
    /\ pc["api"] = "idle"
    /\ ret' = [op |-> op, id |-> 1, code |-> "ERROR_NONE"]
    /\ cur' = [cur EXCEPT !["api"] = Packet("WEBVTT_SELECTION", "-", "api")]
    /\ pc' = [pc EXCEPT !["api"] = "dispatch"]
    /\ UNCHANGED <<mStarted, mSocket, mQuitRenderThread, mDecoder, newDecoder, mSessionType,
                   mDataQueue, mDecoderMutex, wake, nDecoders, nEnqueued, mPreviewText,
                   mLastActiveTime, mSessions, mSessionNumber, bp, now, configStyle, reg>>

\* SetSessionDvbSubtitleSelection, SetSessionSCTESelection on a registered
\* session: selectDvbService and selectScteService write a log line and build no
\* packet; the call returns Core::ERROR_NONE.
SelectUnimplemented(op) ==
    /\ pc["api"] = "idle"
    /\ ret' = [op |-> op, id |-> 1, code |-> "ERROR_NONE"]
    /\ UNCHANGED <<mStarted, mSocket, mQuitRenderThread, mDecoder, newDecoder, mSessionType,
                   mDataQueue, mDecoderMutex, wake, nDecoders, nEnqueued, mPreviewText,
                   mLastActiveTime, mSessions, mSessionNumber, bp, now, configStyle, reg,
                   pc, cur>>

\* The calls of the registry's thread to the session
SelectionCalls == ApiSelection \/ \E op \in UnimplementedSelections : SelectUnimplemented(op)

NextUnimplemented ==
    \/ SelectionCalls
    \/ SelDeactivate("api") \/ SelConstruct("api") \/ SelReset("api") \/ Notify("api")
    \/ SockAddBuffer
    \/ AddBufferCheck("sock") \/ AddBufferPush("sock") \/ Notify("sock")

SpecUnimplemented == InitDispatch /\ [][NextUnimplemented]_vars

\* C38: SetSessionDvbSubtitleSelection and SetSessionSCTESelection on a registered
\* session return success and dispatch no packet: the decoder, the session-type
\* tag and the queue are after the call what they were before it.
C38_UnimplementedSelections ==
    /\ [][(ret'.op \in UnimplementedSelections /\ ret' # ret)
             => UNCHANGED <<mDecoder, newDecoder, mSessionType, mDataQueue, nEnqueued,
                            nDecoders, pc, cur>>]_vars
    /\ [](ret.op \in UnimplementedSelections => ret.code = "ERROR_NONE")

\* C38 witness: the call has returned on a session with a decoder and a queued buffer
C38_Witness ==
    /\ ret.op \in UnimplementedSelections
    /\ mDecoder # NoDecoder
    /\ mSessionType # "NONE"
    /\ mDataQueue # <<>>
    /\ pc["api"] = "idle"

(***************************************************************************)
(* The setters of the closed-captions style, field by field: what they     *)
(* read, which notifications they raise and when they write the store.     *)
(* Here configStyle is the record of mConfigStore (whether the persistent  *)
(* store is configured), stored (the value of the key "ClosedCaptionsStyle" *)
(* in the store, as a set of none or one), mCachedStyle (std::optional, as *)
(* a set of none or one) and written (the call has called SetValue).       *)
(***************************************************************************)

\* The fields of ClosedCaptionsStyle that CheckWhetherClosedCaptionsStyleChanged compares
StyleFields ==
    {"fontFamily", "fontSize", "fontColor", "fontOpacity", "fontEdge", "fontEdgeColor",
     "backgroundColor", "backgroundOpacity", "windowColor", "windowOpacity"}

\* The fields that hold a string
ColorFields == {"fontColor", "fontEdgeColor", "backgroundColor", "windowColor"}

\* The values of JsonClosedCaptionsStyle{}: fontFamily = 0, the other numbers -1,
\* the strings empty.
DefaultValue(f) == IF f \in ColorFields THEN "" ELSE IF f = "fontFamily" THEN 0 ELSE -1

\* One more value of each field, for the callers to set.
OtherValue(f) == IF f \in ColorFields THEN "#ffffff" ELSE IF f = "fontFamily" THEN 1 ELSE 100

FieldValues(f) == {DefaultValue(f), OtherValue(f)}

\* style = JsonClosedCaptionsStyle{}
DefaultStyle == [f \in StyleFields |-> DefaultValue(f)]

\* The style with the fields of S set to their other value
StyleWith(S) == [f \in StyleFields |-> IF f \in S THEN OtherValue(f) ELSE DefaultValue(f)]

\* The styles callers give SetClosedCaptionsStyle
CalledStyles ==
    {StyleWith(S) : S \in {{}, {"fontFamily"}, {"fontColor", "windowOpacity"}, StyleFields}}

\* static_cast<uint8_t> and static_cast<int8_t> of JsonClosedCaptionsStyle::operator=
ToUInt8(v) == v % 256
ToSInt8(v) == ((v + 128) % 256) - 128

\* JsonClosedCaptionsStyle::operator=(ccStyle), then ToString
ToJson(style) ==
    [f \in StyleFields |->
        IF f \in ColorFields THEN style[f]
        ELSE IF f = "fontFamily" THEN ToUInt8(style[f]) ELSE ToSInt8(style[f])]

\* FromString, then JsonClosedCaptionsStyle::operator ClosedCaptionsStyle()
FromJson(json) == [f \in StyleFields |-> json[f]]

\* The one element of an optional that has a value
Value(opt) == CHOOSE v \in opt : TRUE

\* ReadClosedCaptionsStyle(style): the style it gives
ReadClosedCaptionsStyle(c) ==
    IF c.mCachedStyle # {} THEN Value(c.mCachedStyle)
    ELSE IF c.mConfigStore /\ c.stored # {} THEN FromJson(Value(c.stored))
    ELSE DefaultStyle

\* ReadClosedCaptionsStyle(style): mCachedStyle = parsedStyle, once GetValue and
\* FromString have succeeded
AfterRead(c) ==
    IF c.mCachedStyle = {} /\ c.mConfigStore /\ c.stored # {}
    THEN [c EXCEPT !.mCachedStyle = {FromJson(Value(c.stored))}]
    ELSE c

\* The notification of each field
FieldNotification(f) ==
    CASE f = "fontFamily" -> "OnFontFamilyChanged"
      [] f = "fontSize" -> "OnFontSizeChanged"
      [] f = "fontColor" -> "OnFontColorChanged"
      [] f = "fontOpacity" -> "OnFontOpacityChanged"
      [] f = "fontEdge" -> "OnFontEdgeChanged"
      [] f = "fontEdgeColor" -> "OnFontEdgeColorChanged"
      [] f = "backgroundColor" -> "OnBackgroundColorChanged"
      [] f = "backgroundOpacity" -> "OnBackgroundOpacityChanged"
      [] f = "windowColor" -> "OnWindowColorChanged"
      [] OTHER -> "OnWindowOpacityChanged"

CheckWhetherClosedCaptionsStyleChanged_Always(style, oldStyle) ==
    {FieldNotification(f) : f \in StyleFields} \cup {"OnClosedCaptionsStyleChanged"}

\* CheckWhetherClosedCaptionsStyleChanged(style, oldStyle): the notifications it
\* raises; it returns anyStyleChanged, which is whether it raised any.
CheckWhetherClosedCaptionsStyleChanged(style, oldStyle) ==
    LET changed == {f \in StyleFields : style[f] # oldStyle[f]}
    IN  {FieldNotification(f) : f \in changed}
          \cup (IF changed # {} THEN {"OnClosedCaptionsStyleChanged"} ELSE {})

\* WriteClosedCaptionsStyle(style)
WriteClosedCaptionsStyle(c, style) ==
    IF c.mConfigStore
    THEN [c EXCEPT !.stored = {ToJson(style)}, !.mCachedStyle = {style}, !.written = TRUE]
    ELSE c

\* The name of the setter of each field
FieldSetter(f) ==
    CASE f = "fontFamily" -> "SetFontFamily"
      [] f = "fontSize" -> "SetFontSize"
      [] f = "fontColor" -> "SetFontColor"
      [] f = "fontOpacity" -> "SetFontOpacity"
      [] f = "fontEdge" -> "SetFontEdge"
      [] f = "fontEdgeColor" -> "SetFontEdgeColor"
      [] f = "backgroundColor" -> "SetBackgroundColor"
      [] f = "backgroundOpacity" -> "SetBackgroundOpacity"
      [] f = "windowColor" -> "SetWindowColor"
      [] OTHER -> "SetWindowOpacity"

StyleSetters == {FieldSetter(f) : f \in StyleFields} \cup {"SetClosedCaptionsStyle"}

\* The body the setters share: ReadClosedCaptionsStyle(oldStyle); if
\* CheckWhetherClosedCaptionsStyleChanged(style, oldStyle) then
\* WriteClosedCaptionsStyle(style); ApplyClosedCaptionsStyle(style); return
\* Core::ERROR_NONE.  ret keeps the style, the notifications raised and whether
\* the call repeats the one before.
StoreStyle(op, style) ==
    LET oldStyle == ReadClosedCaptionsStyle(configStyle)
        read == [AfterRead(configStyle) EXCEPT !.written = FALSE]
        raised == CheckWhetherClosedCaptionsStyleChanged(style, oldStyle)
    IN  /\ configStyle' = IF raised # {} THEN WriteClosedCaptionsStyle(read, style) ELSE read
        /\ mSessions' = [i \in DOMAIN mSessions |-> ApplyClosedCaptionsStyle(mSessions[i], style)]
        /\ ret' = [op |-> op, id |-> 0, code |-> "ERROR_NONE", style |-> style,
                   raised |-> raised,
                   again |-> ret.op = op /\ ret.style = style]
        /\ UNCHANGED <<mSessionNumber, sessionVars, bp, now, reg>>

\* SetClosedCaptionsStyle(style)
SetWholeStyle == \E style \in CalledStyles : StoreStyle("SetClosedCaptionsStyle", style)

\* SetFontFamily(font) .. SetWindowOpacity(opacity): style = oldStyle; style.<field> = value
SetStyleField ==
    \E f \in StyleFields : \E v \in FieldValues(f) :
        StoreStyle(FieldSetter(f), [ReadClosedCaptionsStyle(configStyle) EXCEPT ![f] = v])

\* After Configure: the store configured or not, the key in the store absent or
\* written by an earlier run, ReadStyleSettings() done.
InitSetters ==
    /\ mStarted = FALSE
    /\ mSocket = FALSE
    /\ mQuitRenderThread = FALSE
    /\ mDecoder = NoDecoder
    /\ newDecoder = NoDecoder
    /\ mSessionType = "NONE"
    /\ mDataQueue = <<>>
    /\ mDecoderMutex = "none"
    /\ pc = [t \in Threads |-> IF t = "render" THEN "off" ELSE "idle"]
    /\ cur = [t \in Threads |-> NoPacket]
    /\ wake = FALSE
    /\ nDecoders = 0
    /\ nEnqueued = 0
    /\ mPreviewText = ""
    /\ mSessions = << >>
    /\ mSessionNumber = 0
    /\ reg = NoLocks
    /\ bp = NoBuildPacket
    /\ now = 0
    /\ mLastActiveTime = 0
    /\ \E store \in BOOLEAN, stored \in {{}, {ToJson(StyleWith({"fontSize"}))}} :
          configStyle = AfterRead([mConfigStore |-> store, stored |-> stored,
                                   mCachedStyle |-> {}, written |-> FALSE])
    /\ ret = [op |-> "none", id |-> 0, code |-> "ERROR_NONE", style |-> DefaultStyle,
              raised |-> {}, again |-> FALSE]

NextSetters == SetWholeStyle \/ SetStyleField

SpecSetters == InitSetters /\ [][NextSetters]_vars

MaxPackets == 2

\* The most bytes of data of a sendData call.
MaxData == 2

\* The packet types the callers of BuildPacket give it, with the typed fields
\* each appends after the constructor, for sample arguments.
TypedFields(type) ==
    CASE type \in {"PES_DATA"} -> <<U32(0)>>
      [] type \in {"TTML_DATA", "WEBVTT_DATA"} -> <<LowWord(500), HighWord(500)>>
      [] type \in {"CC_DATA"} -> <<U32(3), U32(0), U32(0)>>
      [] type \in {"WEBVTT_TIMESTAMP", "TTML_TIMESTAMP"} -> <<LowWord(1000), HighWord(1000)>>
      [] type \in {"SUBTITLE_SELECTION"} -> <<U32(3), U32(0), U32(1)>>
      [] type \in {"WEBVTT_SELECTION", "TTML_SELECTION"} -> <<U32(1920), U32(1080)>>
      [] OTHER -> <<>>

\* The packets sendData builds and gives addBuffer
BufferTypes == {"PES_DATA", "TTML_DATA", "WEBVTT_DATA", "CC_DATA"}

\* The packets the other calls build and give mParser.parse
ParsedTypes ==
    {"WEBVTT_TIMESTAMP", "TTML_TIMESTAMP", "PAUSE", "RESUME", "RESET_CHANNEL", "MUTE", "UNMUTE",
     "SUBTITLE_SELECTION", "WEBVTT_SELECTION", "TTML_SELECTION"}

\* No BuildPacket yet
NoBuffer ==
    [sCounter |-> 0, type |-> "INVALID", words |-> <<>>, todo |-> <<>>, data |-> 0,
     tail |-> 0, to |-> "none"]

\* pBuffer->size()
BufferSize(b) == 4 * Len(b.words) + b.tail

\* BuildPacket(type): the words type, ++sCounter, 0, 1
BuildPacketNew ==
    /\ bp.to # "none" \/ bp.words = <<>>
    /\ bp.sCounter < MaxPackets
    /\ \E type \in BufferTypes \cup ParsedTypes, n \in 0 .. MaxData :
          /\ type \in ParsedTypes => n = 0
          /\ bp' = [sCounter |-> bp.sCounter + 1, type |-> type,
                    words |-> <<type, U32(bp.sCounter + 1), U32(0), U32(1)>>,
                    todo |-> TypedFields(type), data |-> n, tail |-> 0, to |-> "none"]
    /\ UNCHANGED <<sessionVars, mSessions, mSessionNumber, ret, now, configStyle, reg>>

\* BuildPacket::operator()(v): four more bytes at the end
BuildPacketField ==
    /\ bp.words # <<>> /\ bp.to = "none"
    /\ bp.todo # <<>>
    /\ bp' = [bp EXCEPT !.words = Append(@, Head(bp.todo)), !.todo = Tail(@)]
    /\ UNCHANGED <<sessionVars, mSessions, mSessionNumber, ret, now, configStyle, reg>>

\* sendData: std::copy(data.begin(), data.end(), std::back_inserter(*bp.pBuffer))
SendDataCopy ==
    /\ bp.words # <<>> /\ bp.to = "none"
    /\ bp.todo = <<>> /\ bp.type \in BufferTypes
    /\ bp.data > 0 /\ bp.tail = 0
    /\ bp' = [bp EXCEPT !.tail = bp.data]
    /\ UNCHANGED <<sessionVars, mSessions, mSessionNumber, ret, now, configStyle, reg>>

done_WordsOnly(b) ==
    IF 4 * Len(b.words) >= 12
    THEN [b EXCEPT !.words[3] = U32(4 * Len(b.words) - 12)]
    ELSE b

\* BuildPacket::done(): the uint32_t at offset 8 becomes pBuffer->size() - 12
done(b) ==
    IF BufferSize(b) >= 12
    THEN [b EXCEPT !.words[3] = U32(BufferSize(b) - 12)]
    ELSE b

\* BuildPacket::operator DataBufferPtr(), where bp is given to addBuffer or to
\* mParser.parse: done(), then the buffer is moved out
BuildPacketConvert ==
    /\ bp.words # <<>> /\ bp.to = "none"
    /\ bp.todo = <<>>
    /\ bp.type \in BufferTypes => bp.tail = bp.data
    /\ bp' = [done(bp) EXCEPT !.to = IF bp.type \in BufferTypes THEN "queue" ELSE "parser"]
    /\ UNCHANGED <<sessionVars, mSessions, mSessionNumber, ret, now, configStyle, reg>>

InitBuild ==
    /\ mStarted = TRUE
    /\ mSocket = TRUE
    /\ mQuitRenderThread = FALSE
    /\ mDecoder = NoDecoder
    /\ newDecoder = NoDecoder
    /\ mSessionType = "NONE"
    /\ mDataQueue = <<>>
    /\ mDecoderMutex = "none"
    /\ pc = [t \in Threads |-> IF t = "render" THEN "blocked" ELSE "idle"]
    /\ cur = [t \in Threads |-> NoPacket]
    /\ wake = FALSE
    /\ nDecoders = 0
    /\ nEnqueued = 0
    /\ mPreviewText = ""
    /\ InitRegistry
    /\ reg = NoLocks
    /\ now = 0
    /\ mLastActiveTime = 0
    /\ bp = NoBuffer

NextBuild == BuildPacketNew \/ BuildPacketField \/ SendDataCopy \/ BuildPacketConvert

SpecBuild == InitBuild /\ [][NextBuild]_vars

\* C40: in every buffer BuildPacket hands to the parser or to the queue, the
\* length word at byte offset 8 is the size of the buffer less the 12 bytes of
\* the header, the data bytes of sendData included.
C40_LengthWord ==
    bp.to # "none" =>
        /\ BufferSize(bp) >= 12
        /\ bp.words[3] = <<4 * (Len(bp.words) - 3) + bp.data, 0>>

\* C40 witness: a TTML buffer with data bytes after its offset words is in the queue
C40_Witness ==
    /\ bp.to = "queue" /\ bp.type = "TTML_DATA"
    /\ bp.data > 0 /\ bp.tail = bp.data
    /\ Len(bp.words) = 6

====
